---------------------------- MODULE Spec2Model ----------------------------
(***************************************************************************)
(* Lesson progress and quiz state tracker (class LessonManager) of the     *)
(* course-resources repository, in its four revisions:                     *)
(*   v2.0  src/unnamed/part_001                                            *)
(*   v2.2  src/unnamed/part_004  (debug build: src/lesson-manager.js)      *)
(*   v2.4  src/unnamed/part_002                                            *)
(*   v2.6  src/unnamed/part_003                                            *)
(* One tracker instance lives in one page; the page can be reloaded, which *)
(* constructs a new instance over the same localStorage record.            *)
(***************************************************************************)
EXTENDS Integers, Sequences, FiniteSets, TLC

VARIABLES
    cfg,      \* the page: tracker revision, constructor options, DOM facts
    win,      \* window/document geometry: scrollY, scrollHeight, innerHeight, contentEnd
    media,    \* the <video>/<audio> element: metadata state, paused, currentTime
    lm,       \* the LessonManager instance (its fields)
    storage,  \* localStorage["lesson_<lessonId>_progress"], parsed, or NoRecord
    timers,   \* pending setTimeout / requestAnimationFrame callbacks
    posted,   \* messages handed to window.parent.postMessage by the last step
    lastOp,   \* the kind of handler that ran in the last step: "load" (constructor),
              \* "event" (scroll, resize, media), "timer", "click" (with the
              \* question and answer), "check", "reset"
    log,      \* history: one entry per handler run, kept only by the
              \* specifications that follow a run as a whole (empty elsewhere)
    widgets,  \* the other components of a page: ThemeToggle and LessonUI
              \* (their lookups and pending re-attempts)
    localStorage, \* the origin's localStorage key by key, kept only by the
              \* specification that follows the other keys (empty elsewhere)
    otherTab  \* the tracker of a second tab on the same lesson: its window,
              \* media element, instance, timers (absent but for two tabs)

vars == <<cfg, win, media, lm, storage, timers, posted, lastOp, log, widgets,
          localStorage, otherTab>>

---------------------------------------------------------------------------
(* Bounds of the model *)

MaxQuestions == 1        \* question blocks on a page of Spec
MaxQuizQuestions == 3    \* question blocks on a page of SpecQuiz
MaxScoreQuestions == 3   \* question blocks on a page of SpecScore
MaxHeight == 1
MaxMediaTime == 2
MaxPending == 1

---------------------------------------------------------------------------
(* JavaScript numbers.  A finite number is an exact fraction n/d in lowest *)
(* terms (d > 0); NaN, Infinity, null and undefined are kept apart because *)
(* the code's arithmetic and JSON conversion tell them apart.              *)

RECURSIVE GCD(_, _)
GCD(a, b) == IF b = 0 THEN a ELSE GCD(b, a % b)

Abs(x) == IF x < 0 THEN -x ELSE x

Frac(n, d) ==
    LET g == GCD(Abs(n), d)
    IN  [k |-> "num", n |-> n \div g, d |-> d \div g]

Int2Num(i) == [k |-> "num", n |-> i, d |-> 1]
NaN == [k |-> "nan", n |-> 0, d |-> 1]
Infinity == [k |-> "inf", n |-> 1, d |-> 1]
Null == [k |-> "null", n |-> 0, d |-> 1]
Undefined == [k |-> "undefined", n |-> 0, d |-> 1]

Zero == Int2Num(0)
Hundred == Int2Num(100)

\* ToNumber: null converts to 0, undefined to NaN
ToNumber(x) ==
    CASE x.k = "null" -> Zero
      [] x.k = "undefined" -> NaN
      [] OTHER -> x

\* a / b for integers a >= 0 and b (x/0 is Infinity, 0/0 is NaN)
JsDiv(a, b) ==
    IF b = 0 THEN (IF a = 0 THEN NaN ELSE Infinity)
    ELSE IF b > 0 THEN Frac(a, b) ELSE Frac(-a, -b)

\* x * 100
Times100(x) == IF x.k = "num" THEN Frac(x.n * 100, x.d) ELSE x

\* Math.round: floor(x + 0.5); NaN and Infinity pass through
MathRound(x) ==
    IF x.k = "num" THEN Int2Num((2 * x.n + x.d) \div (2 * x.d)) ELSE x

\* a < b as JavaScript evaluates it (false as soon as a NaN is involved)
JsLt(a, b) ==
    LET x == ToNumber(a)
        y == ToNumber(b)
    IN  CASE x.k = "nan" \/ y.k = "nan" -> FALSE
          [] x.k = "inf" -> FALSE
          [] y.k = "inf" -> TRUE
          [] OTHER -> x.n * y.d < y.n * x.d

JsGt(a, b) == JsLt(b, a)
JsGe(a, b) ==
    LET x == ToNumber(a)
        y == ToNumber(b)
    IN  ~(x.k = "nan" \/ y.k = "nan") /\ ~JsLt(a, b)

\* Math.min / Math.max: NaN if an argument is NaN
MathMin(a, b) ==
    LET x == ToNumber(a)
        y == ToNumber(b)
    IN  IF x.k = "nan" \/ y.k = "nan" THEN NaN
        ELSE IF JsLt(y, x) THEN y ELSE x

MathMax(a, b) ==
    LET x == ToNumber(a)
        y == ToNumber(b)
    IN  IF x.k = "nan" \/ y.k = "nan" THEN NaN
        ELSE IF JsLt(x, y) THEN y ELSE x

\* Math.abs(a - b) > 1/2 for finite a, b
AbsDiffOverHalf(a, b) ==
    LET x == ToNumber(a)
        y == ToNumber(b)
    IN  IF x.k # "num" \/ y.k # "num" THEN x.k = "inf" \/ y.k = "inf"
        ELSE 2 * Abs(x.n * y.d - y.n * x.d) > x.d * y.d

\* truthiness of a number: 0, NaN, null and undefined are falsy
Truthy(x) == x.k = "inf" \/ (x.k = "num" /\ x.n # 0)

\* what JSON.parse(JSON.stringify(x)) gives back for a number-valued property:
\* NaN and Infinity are written as null, undefined properties are dropped
JSONNumber(x) ==
    CASE x.k \in {"nan", "inf"} -> Null
      [] OTHER -> x

---------------------------------------------------------------------------
(* The page *)

Variants == {"v2.0", "v2.2", "v2.4", "v2.6"}
Letters == <<"a", "b", "c">>
LetterSet == {Letters[i] : i \in 1..Len(Letters)}

\* data-correct of question block i (0-based): a, b, c, a, ...
Correct(i) == Letters[(i % Len(Letters)) + 1]

NoContentEnd == -1

Heights == {15 * h : h \in 1..MaxHeight}
DocHeights == {15 * h : h \in 1..(MaxHeight + 1)}

\* document.documentElement.scrollHeight is never below the viewport height;
\* contentEnd is offsetTop + offsetHeight of the element findContentEnd returns
Layouts ==
    {[scrollHeight |-> s, innerHeight |-> i, contentEnd |-> c] :
        s \in DocHeights, i \in Heights, c \in {NoContentEnd} \cup DocHeights}

RealLayouts == {l \in Layouts : l.scrollHeight >= l.innerHeight /\ l.contentEnd <= l.scrollHeight}

MaxScrollY(l) == IF l.scrollHeight > l.innerHeight THEN l.scrollHeight - l.innerHeight ELSE 0

\* scroll offsets the browser can report for a layout (10 and 11 straddle the
\* "scrollTop > 10" test of v2.4 and v2.6)
ScrollOffsets(l) == {y \in {0, 10, 11} \cup Heights : y <= MaxScrollY(l)}

Min(a, b) == IF a < b THEN a ELSE b

---------------------------------------------------------------------------
(* Progress estimators *)

\* v2.0 trackScroll: no guard against a scrollable distance of 0
trackScroll(l, w) ==
    LET scrollHeight == w.scrollHeight - w.innerHeight
        scrolled == w.scrollY
        percent == MathMin(Hundred, MathRound(Times100(JsDiv(scrolled, scrollHeight))))
    IN  [l EXCEPT !.requirements.contentProgress = MathMax(@, percent)]

\* the v2.2 media percentage with Math.floor in place of Math.round
mediaProgress22_floor(l) ==
    LET x == Times100(JsDiv(l.mediaWatched, l.mediaDuration))
    IN  MathMin(Hundred, IF x.k = "num" THEN Int2Num(x.n \div x.d) ELSE x)

\* the media percentage of v2.2 trackContent (taken when the duration is known)
mediaProgress22(l) ==
    MathMin(Hundred, MathRound(Times100(JsDiv(l.mediaWatched, l.mediaDuration))))

\* the scroll percentage of v2.2 trackContent
scrollProgress22(w) ==
    LET scrollHeight == w.scrollHeight - w.innerHeight
        scrolled == w.scrollY
    IN  IF scrollHeight > 0
        THEN MathMin(Hundred, MathRound(Times100(JsDiv(scrolled, scrollHeight))))
        ELSE Zero

\* v2.2 trackContent: media when its duration is known, otherwise the scroll
\* position over the whole document; ratchet
trackContent22(l, w) ==
    LET contentProgress ==
            IF l.hasMedia /\ l.mediaDuration > 0
            THEN mediaProgress22(l)
            ELSE scrollProgress22(w)
    IN  IF JsGt(contentProgress, l.requirements.contentProgress)
        THEN [l EXCEPT !.requirements.contentProgress = contentProgress]
        ELSE l

\* the scroll percentage of v2.4 trackContent
scrollProgress24(w) ==
    IF w.contentEnd # NoContentEnd
    THEN LET scrollNeeded == IF w.contentEnd - w.innerHeight > 0
                             THEN w.contentEnd - w.innerHeight ELSE 0
         IN  IF scrollNeeded > 0
             THEN MathMin(Hundred, Times100(JsDiv(w.scrollY, scrollNeeded)))
             ELSE IF w.scrollY > 10 THEN Hundred ELSE Zero
    ELSE LET totalScrollable == w.scrollHeight - w.innerHeight
         IN  IF totalScrollable > 0
             THEN MathMin(Hundred, Times100(JsDiv(w.scrollY, totalScrollable)))
             ELSE Zero

mediaProgress24(l) ==
    IF l.hasMedia /\ l.mediaDuration > 0
    THEN MathMin(Hundred, Times100(JsDiv(l.mediaWatched, l.mediaDuration)))
    ELSE Zero

\* v2.4 trackContent taking the new value over whenever it differs at all
trackContent24_always(l, w) ==
    [l EXCEPT !.requirements.contentProgress =
                    MathMax(mediaProgress24(l), scrollProgress24(w))]

\* v2.4 trackContent: the larger of media and scroll percentage, taken over
\* whenever it differs from the stored value by more than 0.5
trackContent24(l, w) ==
    LET newProgress == MathMax(mediaProgress24(l), scrollProgress24(w))
    IN  IF AbsDiffOverHalf(newProgress, l.requirements.contentProgress)
        THEN [l EXCEPT !.requirements.contentProgress = newProgress]
        ELSE l

\* the v2.6 scroll percentage with "scrollTop > 0" as the test of a page
\* that needs no scrolling
currentScrollProgress_anyScroll(w) ==
    LET scrollableHeight ==
            IF w.contentEnd # NoContentEnd
            THEN (IF w.contentEnd - w.innerHeight > 0 THEN w.contentEnd - w.innerHeight ELSE 0)
            ELSE w.scrollHeight - w.innerHeight
    IN  IF scrollableHeight > 0
        THEN MathMin(Hundred, MathMax(Zero, Times100(JsDiv(w.scrollY, scrollableHeight))))
        ELSE IF w.scrollY > 0 THEN Hundred ELSE Zero

\* the scroll percentage of v2.6 trackScrollProgress
currentScrollProgress(w) ==
    LET scrollableHeight ==
            IF w.contentEnd # NoContentEnd
            THEN (IF w.contentEnd - w.innerHeight > 0 THEN w.contentEnd - w.innerHeight ELSE 0)
            ELSE w.scrollHeight - w.innerHeight
    IN  IF scrollableHeight > 0
        THEN MathMin(Hundred, MathMax(Zero, Times100(JsDiv(w.scrollY, scrollableHeight))))
        ELSE IF w.scrollY > 10 THEN Hundred ELSE Zero

\* v2.6: whether trackScrollProgress raises the progress (and then saves)
raises26(l, w) == JsGt(currentScrollProgress(w), l.highestScrollProgress)

\* trackScrollProgress taking the current percentage over without comparing
trackScrollProgress_lastValue(l, w) ==
    [l EXCEPT !.highestScrollProgress = currentScrollProgress(w),
              !.requirements.contentProgress = currentScrollProgress(w)]

trackScrollProgress(l, w) ==
    IF raises26(l, w)
    THEN [l EXCEPT !.highestScrollProgress = currentScrollProgress(w),
                   !.requirements.contentProgress = currentScrollProgress(w)]
    ELSE l

\* the progress recomputation of each revision
Track(l, w) ==
    CASE cfg.variant = "v2.0" -> trackScroll(l, w)
      [] cfg.variant = "v2.2" -> trackContent22(l, w)
      [] cfg.variant = "v2.4" -> trackContent24(l, w)
      [] OTHER -> trackScrollProgress(l, w)

---------------------------------------------------------------------------
(* Construction, persistence, notification *)

InitialQuizState == IF cfg.variant = "v2.0" THEN "active" ELSE "not-started"

\* the global lessonQuiz as a page defines it: what kind of value it is and
\* its length property (0 where it has none)
ArrayOf(n) == [kind |-> "array", length |-> n]
NoLessonQuiz == [kind |-> "undefined", length |-> 0]
StringLessonQuiz == [kind |-> "string", length |-> 2]

\* v2.6 checkForQuiz: the global lessonQuiz is a non-empty array
checkForQuiz ==
    IF cfg.lessonQuiz.kind = "undefined" \/ cfg.lessonQuiz.kind # "array"
    THEN FALSE
    ELSE cfg.lessonQuiz.length > 0

\* v2.6 constructor: { passingScore: options.passingScore || 100, ...options.quizConfig }
passingScore ==
    IF cfg.qcPassing.k # "undefined" THEN cfg.qcPassing
    ELSE IF Truthy(cfg.optPassing) THEN cfg.optPassing
    ELSE Hundred

\* the fields the constructor sets before init()
NewLessonManager ==
    [requirements |-> [contentProgress |-> Zero, quizPassed |-> FALSE],
     selectedAnswers |-> << >>,
     quizState |-> InitialQuizState,
     highestScrollProgress |-> Zero,
     mediaDuration |-> 0,
     mediaWatched |-> 0,
     hasMedia |-> FALSE,
     lastScrollY |-> 0]

\* setupMediaTracking (v2.2, v2.4): hasMedia when a video/audio element exists
setupMediaTracking(l) ==
    IF cfg.variant \in {"v2.2", "v2.4"} /\ cfg.mediaEl
    THEN [l EXCEPT !.hasMedia = TRUE]
    ELSE l

\* the object saveProgress builds, after JSON.stringify and JSON.parse
\* (the timestamp is left out: nothing reads it)
JSONRecord(l) ==
    [requirements |-> [contentProgress |-> JSONNumber(l.requirements.contentProgress),
                       quizPassed |-> l.requirements.quizPassed],
     quizState |-> l.quizState,
     highestScrollProgress |->
        IF cfg.variant = "v2.6" THEN JSONNumber(l.highestScrollProgress) ELSE Undefined,
     selectedAnswers |-> l.selectedAnswers,
     mediaWatched |->
        IF cfg.variant \in {"v2.2", "v2.4"} THEN Int2Num(l.mediaWatched) ELSE Undefined]

\* what the browser's storage does on this page: works ("none"), refuses
\* writes ("quota": setItem throws), or refuses every access ("denied")
getItemThrows == cfg.storageFault = "denied"
setItemThrows == cfg.storageFault \in {"quota", "denied"}

\* a stored item that is not JSON text
CorruptItem == [text |-> "{"]
parseThrows(item) == "requirements" \notin DOMAIN item

\* a key that leaves the lesson id out
StorageKey_anyLesson(id) == "lesson_1_progress"

\* the key loadProgress reads and saveProgress writes
StorageKey(id) == "lesson_" \o id \o "_progress"

\* saveProgress clearing the item when the write fails
saveProgress_clearing(l, st) == IF setItemThrows THEN << >> ELSE <<JSONRecord(l)>>

\* saveProgress over the stored item st: localStorage.setItem of the record
\* (the new value of the item); a throwing setItem is caught and st stays
saveProgress(l, st) == IF setItemThrows THEN st ELSE <<JSONRecord(l)>>

\* loadProgress restoring the requirements and nothing else
loadProgress_requirementsOnly(l, st) ==
    IF getItemThrows \/ st = << >> THEN l
    ELSE IF parseThrows(st[1]) THEN l
    ELSE [l EXCEPT !.requirements = st[1].requirements]

\* loadProgress: restores requirements (all revisions), quizState and
\* mediaWatched (v2.2, v2.4), quizState and highestScrollProgress (v2.6); v2.0
\* restores quizState only through setQuizState('completed'); no revision
\* reads selectedAnswers back
loadProgress(l, st) ==
    IF getItemThrows \/ st = << >> THEN l
    ELSE IF parseThrows(st[1]) THEN l
    ELSE LET progress == st[1]
             req == progress.requirements
         IN  CASE cfg.variant = "v2.0" ->
                    [l EXCEPT !.requirements = req,
                              !.quizState = IF req.quizPassed THEN "completed" ELSE @]
               [] cfg.variant \in {"v2.2", "v2.4"} ->
                    [l EXCEPT !.requirements = req,
                              !.quizState = progress.quizState,
                              !.mediaWatched =
                                  IF Truthy(progress.mediaWatched)
                                  THEN progress.mediaWatched.n ELSE 0]
               [] OTHER ->
                    LET highest ==
                            IF Truthy(progress.highestScrollProgress)
                            THEN progress.highestScrollProgress
                            ELSE IF Truthy(req.contentProgress)
                                 THEN req.contentProgress ELSE Zero
                    IN  [l EXCEPT !.requirements =
                                      [contentProgress |-> highest,
                                       quizPassed |-> req.quizPassed],
                                  !.quizState = progress.quizState,
                                  !.highestScrollProgress = highest]

Msg(type, score, requires, already, hasQuiz) ==
    [type |-> type, score |-> score, requires_completion |-> requires,
     already_completed |-> already, has_quiz |-> hasQuiz]

\* window.parent.postMessage happens only when the page is embedded
Post(m) == IF cfg.embedded THEN <<m>> ELSE << >>

notifyCompletion == Post(Msg("lesson_complete", 100, FALSE, FALSE, FALSE))
notifyReset == Post(Msg("lesson_reset", 0, FALSE, FALSE, FALSE))

\* declareLessonRequirements as it would report before loadProgress has run
declareLessonRequirements_beforeLoad(l) ==
    IF cfg.variant = "v2.6"
    THEN Post(Msg("lesson_requirements", 0, checkForQuiz, FALSE, checkForQuiz))
    ELSE Post(Msg("lesson_requirements", 0, TRUE, FALSE, FALSE))

\* declareLessonRequirements reporting the stored flag without asking hasQuiz
declareLessonRequirements_stored(l) ==
    IF cfg.variant = "v2.6"
    THEN Post(Msg("lesson_requirements", 0, checkForQuiz,
                  l.requirements.quizPassed, checkForQuiz))
    ELSE Post(Msg("lesson_requirements", 0, TRUE, FALSE, FALSE))

declareLessonRequirements(l) ==
    IF cfg.variant = "v2.6"
    THEN Post(Msg("lesson_requirements", 0, checkForQuiz,
                  checkForQuiz /\ l.requirements.quizPassed, checkForQuiz))
    ELSE Post(Msg("lesson_requirements", 0, TRUE, FALSE, FALSE))

NoTimers ==
    [scroll |-> FALSE, resize |-> 0, raf |-> FALSE, init |-> FALSE,
     save |-> 0, notify |-> FALSE]

\* the end of trackContent without clearTimeout: one more save timer
restartSave_keepPending(t) == [t EXCEPT !.save = @ + 1]

\* the end of trackScroll / trackContent (v2.0, v2.2, v2.4):
\* clearTimeout(this.saveTimeout) cancels the save timer last scheduled, if
\* it is still pending, and setTimeout schedules a new one; timers.save
\* counts the pending save timers
restartSave(t) == [t EXCEPT !.save = (IF @ > 0 THEN @ - 1 ELSE 0) + 1]

\* One call of the progress recomputation with its persistence side effect:
\* v2.0/v2.2/v2.4 restart the 1000 ms save timer, v2.6 saves at once when the
\* progress rose.  Gives the new instance, timers and storage.
TrackCall(l, t, st, w) ==
    IF cfg.variant = "v2.6"
    THEN [lm |-> Track(l, w), timers |-> t,
          storage |-> IF raises26(l, w) THEN saveProgress(Track(l, w), st) ELSE st]
    ELSE [lm |-> Track(l, w), timers |-> restartSave(t), storage |-> st]

\* constructor + init() over the stored record st and the window w
Construct(st, w) ==
    LET loaded == loadProgress(setupMediaTracking(NewLessonManager), st)
        decl == declareLessonRequirements(loaded)
    IN  CASE cfg.variant = "v2.0" ->
                TrackCall(loaded, NoTimers, st, w) @@ [posted |-> decl]
          [] cfg.variant = "v2.2" ->
                TrackCall(loaded, [NoTimers EXCEPT !.init = TRUE], st, w) @@ [posted |-> decl]
          [] cfg.variant = "v2.4" ->
                [lm |-> loaded, timers |-> [NoTimers EXCEPT !.init = TRUE],
                 storage |-> st, posted |-> decl]
          [] OTHER ->
                [lm |-> loaded,
                 timers |-> [NoTimers EXCEPT !.init = TRUE,
                                !.notify = checkForQuiz /\ loaded.requirements.quizPassed],
                 storage |-> st, posted |-> decl]

Op(name) == [op |-> name, q |-> 0, a |-> ""]

---------------------------------------------------------------------------
(* Pages the tracker is run on.  A "quiz" page varies the quiz (questions,  *)
(* embedding, presence of #quizFeedback, passing score) over one scrollable *)
(* layout with two scroll stops; a "scroll" page varies the geometry and    *)
(* has no question block; a "media" page has a video/audio element over the *)
(* one layout and no question block.                                        *)

\* (options.passingScore, options.quizConfig.passingScore); only v2.6 reads them
NoPassingOption == <<Undefined, Undefined>>
PassingOptions ==
    {NoPassingOption, <<Zero, Undefined>>, <<Int2Num(50), Undefined>>,
     <<Int2Num(67), Undefined>>, <<Undefined, Zero>>, <<Undefined, Int2Num(50)>>}

Page(v, e, n, po, f, m, focus) ==
    [variant |-> v, embedded |-> e, nq |-> n, lessonQuiz |-> ArrayOf(n),
     optPassing |-> po[1], qcPassing |-> po[2], feedback |-> f, mediaEl |-> m,
     focus |-> focus, storageFault |-> "none", duration |-> MaxMediaTime,
     showCelebration |-> TRUE, lessonId |-> "1"]

\* what a revision can tell apart: only v2.6 reads the passing score, only
\* v2.0 depends on #quizFeedback, only v2.2/v2.4 look for a media element
Sensible(p) ==
    /\ p.variant # "v2.6" => (p.optPassing = Undefined /\ p.qcPassing = Undefined)
    /\ p.variant # "v2.0" => p.feedback
    /\ p.mediaEl => p.variant \in {"v2.2", "v2.4"}

QuizPages ==
    {p \in {Page(v, e, n, po, f, FALSE, "quiz") :
                v \in Variants, e \in BOOLEAN, n \in 1..MaxQuestions,
                po \in {NoPassingOption, <<Zero, Undefined>>}, f \in BOOLEAN} :
        Sensible(p)}

ScrollPages ==
    {Page(v, TRUE, 0, NoPassingOption, TRUE, FALSE, "scroll") : v \in Variants}

MediaPages ==
    {Page(v, TRUE, 0, NoPassingOption, TRUE, TRUE, "media") : v \in {"v2.2", "v2.4"}}

Pages == QuizPages \cup ScrollPages \cup MediaPages

\* a long page: 200 px of scrollable distance, so that one pixel is half a
\* percent
LongLayout == [scrollHeight |-> 215, innerHeight |-> 15, contentEnd |-> NoContentEnd]

PageLayouts ==
    CASE cfg.focus = "scroll" -> RealLayouts
      [] cfg.focus = "long" -> {LongLayout}
      [] OTHER -> {[scrollHeight |-> 30, innerHeight |-> 15, contentEnd |-> NoContentEnd]}

\* the scroll offsets tried on the page
PageOffsets(l) ==
    CASE cfg.focus = "scroll" -> ScrollOffsets(l)
      [] cfg.focus = "long" -> {0, 10, 11, MaxScrollY(l)}
      [] OTHER -> {0, MaxScrollY(l)}

Geometry(l, y) ==
    [scrollY |-> y, scrollHeight |-> l.scrollHeight, innerHeight |-> l.innerHeight,
     contentEnd |-> l.contentEnd]

\* the element as the page starts loading: its metadata arrives either after
\* the tracker registered its listeners ("loading") or before ("early")
NewMedia ==
    IF cfg.mediaEl
    THEN {[meta |-> s, paused |-> TRUE] : s \in {"loading", "early"}}
    ELSE {[meta |-> "none", paused |-> TRUE]}

\* the state after construction on a page of the set ps, over one of the
\* stored items of stores
InitWith(ps, stores) ==
    /\ cfg \in ps
    /\ \E l \in PageLayouts : win = Geometry(l, 0)
    /\ media \in NewMedia
    /\ \E st \in stores :
         LET c == Construct(st, win)
         IN  /\ lm = c.lm
             /\ timers = c.timers
             /\ storage = c.storage
             /\ posted = c.posted
    /\ lastOp = Op("load")

\* a first visit: nothing stored under the lesson's key
EmptyStorage == {<< >>}

\* the state after construction on a page of the set ps, with empty storage
InitOn(ps) == InitWith(ps, EmptyStorage)

\* the widgets of a page that holds only the tracker
NoWidgets == [present |-> FALSE]

\* the tracker alone: no history kept, no other component on the page
\* one tab, and no storage key followed but the tracker's own (in storage)
NoItems == [k \in {} |-> << >>]
NoTab == [present |-> FALSE]
OneTab == localStorage = NoItems /\ otherTab = NoTab

TrackerOnly == log = << >> /\ widgets = NoWidgets /\ OneTab

Init == InitOn(Pages) /\ TrackerOnly

---------------------------------------------------------------------------
(* Scroll, resize and timers *)

\* the state after a step that called the progress recomputation with timers t
Tracked(l, t, w) ==
    LET c == TrackCall(l, t, storage, w)
    IN  /\ lm' = c.lm
        /\ timers' = c.timers
        /\ storage' = c.storage

\* window 'scroll' event at offset y
Scroll(y) ==
    /\ y \in PageOffsets(win)
    /\ win' = [win EXCEPT !.scrollY = y]
    /\ CASE cfg.variant = "v2.0" -> Tracked(lm, timers, win')
         [] cfg.variant = "v2.2" ->
                IF (lm.hasMedia /\ ~media.paused) \/ y = lm.lastScrollY
                THEN UNCHANGED <<lm, timers, storage>>
                ELSE /\ lm' = [lm EXCEPT !.lastScrollY = y]
                     /\ timers' = [timers EXCEPT !.scroll = TRUE]
                     /\ UNCHANGED storage
         [] cfg.variant = "v2.4" ->
                /\ timers' = [timers EXCEPT !.raf = TRUE]
                /\ UNCHANGED <<lm, storage>>
         [] OTHER ->
                /\ timers' = [timers EXCEPT !.scroll = TRUE]
                /\ UNCHANGED <<lm, storage>>
    /\ posted' = << >>
    /\ lastOp' = Op("event")
    /\ UNCHANGED <<cfg, media>>

\* window 'resize' event: the layout changes, the browser clamps scrollY
Resize(l) ==
    /\ l \in PageLayouts
    /\ cfg.variant \in {"v2.4", "v2.6"} => timers.resize < MaxPending
    /\ win' = Geometry(l, Min(win.scrollY, MaxScrollY(l)))
    /\ timers' = CASE cfg.variant = "v2.0" -> timers
                   [] cfg.variant = "v2.2" -> [timers EXCEPT !.scroll = TRUE]
                   [] OTHER -> [timers EXCEPT !.resize = @ + 1]
    /\ posted' = << >>
    /\ lastOp' = Op("event")
    /\ UNCHANGED <<cfg, media, lm, storage>>

\* the debounced scroll/resize callback (v2.2, v2.6)
ScrollTimer ==
    /\ timers.scroll
    /\ Tracked(lm, [timers EXCEPT !.scroll = FALSE], win)
    /\ posted' = << >>
    /\ lastOp' = Op("timer")
    /\ UNCHANGED <<cfg, win, media>>

\* one of the resize callbacks of v2.4/v2.6 (each resize event adds its own)
ResizeTimer ==
    /\ timers.resize > 0
    /\ Tracked(lm, [timers EXCEPT !.resize = @ - 1], win)
    /\ posted' = << >>
    /\ lastOp' = Op("timer")
    /\ UNCHANGED <<cfg, win, media>>

\* the requestAnimationFrame callback of v2.4
AnimationFrame ==
    /\ timers.raf
    /\ Tracked(lm, [timers EXCEPT !.raf = FALSE], win)
    /\ posted' = << >>
    /\ lastOp' = Op("timer")
    /\ UNCHANGED <<cfg, win, media>>

\* the initial tracking callback scheduled by init / setupScrollTracking
InitTimer ==
    /\ timers.init
    /\ Tracked(lm, [timers EXCEPT !.init = FALSE], win)
    /\ posted' = << >>
    /\ lastOp' = Op("timer")
    /\ UNCHANGED <<cfg, win, media>>

\* the 1000 ms save callback of v2.0/v2.2/v2.4: writes the state it finds
SaveTimer ==
    /\ timers.save > 0
    /\ timers' = [timers EXCEPT !.save = @ - 1]
    /\ storage' = saveProgress(lm, storage)
    /\ posted' = << >>
    /\ lastOp' = Op("timer")
    /\ UNCHANGED <<cfg, win, media, lm>>

\* the 500 ms callback of v2.6 init for a record loaded as passed
NotifyTimer ==
    /\ timers.notify
    /\ timers' = [timers EXCEPT !.notify = FALSE]
    /\ posted' = notifyCompletion
    /\ lastOp' = Op("timer")
    /\ UNCHANGED <<cfg, win, media, lm, storage>>

---------------------------------------------------------------------------
(* Media element events (v2.2, v2.4) *)

LoadedMetadata ==
    /\ media.meta = "loading"
    /\ media' = [media EXCEPT !.meta = "loaded"]
    /\ IF cfg.variant = "v2.4"
       THEN Tracked([lm EXCEPT !.mediaDuration = cfg.duration], timers, win)
       ELSE /\ lm' = [lm EXCEPT !.mediaDuration = cfg.duration]
            /\ UNCHANGED <<timers, storage>>
    /\ posted' = << >>
    /\ lastOp' = Op("event")
    /\ UNCHANGED <<cfg, win>>

TimeUpdate(t) ==
    /\ media.meta \in {"loaded", "early"}
    /\ IF lm.mediaDuration > 0
       THEN Tracked([lm EXCEPT !.mediaWatched = IF t > @ THEN t ELSE @], timers, win)
       ELSE UNCHANGED <<lm, timers, storage>>
    /\ posted' = << >>
    /\ lastOp' = Op("event")
    /\ UNCHANGED <<cfg, win, media>>

Ended ==
    /\ media.meta \in {"loaded", "early"}
    /\ ~media.paused
    /\ media' = [media EXCEPT !.paused = TRUE]
    /\ Tracked([lm EXCEPT !.mediaWatched = lm.mediaDuration], timers, win)
    /\ posted' = << >>
    /\ lastOp' = Op("event")
    /\ UNCHANGED <<cfg, win>>

PlayPause ==
    /\ media.meta \in {"loaded", "early"}
    /\ media' = [media EXCEPT !.paused = ~@]
    /\ lastOp' = Op("event")
    /\ posted' = << >>
    /\ UNCHANGED <<cfg, win, lm, storage, timers>>

---------------------------------------------------------------------------
(* Quiz *)

Questions == 0..(cfg.nq - 1)

\* the answers offered for question i here: the right one and a wrong one
Options(i) == {Correct(i), Correct(i + 1)}

\* selectedAnswers[q] = a
Select(sa, q, a) == [i \in DOMAIN sa \cup {q} |-> IF i = q THEN a ELSE sa[i]]

\* handleAnswerClick without the early return of the 'passed' state
handleAnswerClick_unguarded(l, q, a) ==
    IF cfg.variant = "v2.0"
    THEN IF l.quizState # "active" THEN l
         ELSE [l EXCEPT !.selectedAnswers = Select(@, q, a)]
    ELSE [l EXCEPT !.quizState = IF @ = "not-started" THEN "in-progress" ELSE @,
                   !.selectedAnswers = Select(@, q, a)]

\* handleAnswerClick entering 'in-progress' on every recorded click
handleAnswerClick_restart(l, q, a) ==
    IF cfg.variant = "v2.0"
    THEN IF l.quizState # "active" THEN l
         ELSE [l EXCEPT !.selectedAnswers = Select(@, q, a)]
    ELSE IF l.quizState = "passed" THEN l
         ELSE [l EXCEPT !.quizState = "in-progress",
                        !.selectedAnswers = Select(@, q, a)]

\* handleAnswerClick on the option with data-answer a of question block q
handleAnswerClick(l, q, a) ==
    IF cfg.variant = "v2.0"
    THEN IF l.quizState # "active" THEN l
         ELSE [l EXCEPT !.selectedAnswers = Select(@, q, a)]
    ELSE IF l.quizState = "passed" THEN l
         ELSE [l EXCEPT !.quizState = IF @ = "not-started" THEN "in-progress" ELSE @,
                        !.selectedAnswers = Select(@, q, a)]

HandleAnswerClick(q, a) ==
    /\ q \in Questions
    /\ a \in Options(q)
    /\ lm' = handleAnswerClick(lm, q, a)
    /\ posted' = << >>
    /\ lastOp' = [op |-> "click", q |-> q, a |-> a]
    /\ UNCHANGED <<cfg, win, media, storage, timers>>

\* checkAnswers: the number of questions whose selected answer is the correct one
correctCount(l) ==
    Cardinality({i \in Questions :
                    i \in DOMAIN l.selectedAnswers /\ l.selectedAnswers[i] = Correct(i)})

\* v2.6: Math.round((correctCount / questions.length) * 100)
scorePercentage(l) == MathRound(Times100(JsDiv(correctCount(l), cfg.nq)))

\* the pass decision with a strict comparison against the passing score
passed_strict(l) ==
    IF cfg.variant = "v2.6"
    THEN JsGt(scorePercentage(l), passingScore)
    ELSE correctCount(l) = cfg.nq

\* the pass decision of checkAnswers
passed(l) ==
    IF cfg.variant = "v2.6"
    THEN JsGe(scorePercentage(l), passingScore)
    ELSE correctCount(l) = cfg.nq

\* the instance after checkAnswers (v2.0 changes state only inside
\* "if (feedback)", and its setQuizState assigns quizState)
checkAnswers(l) ==
    CASE cfg.variant = "v2.0" ->
            IF ~cfg.feedback THEN l
            ELSE IF passed(l)
                 THEN [l EXCEPT !.requirements.quizPassed = TRUE, !.quizState = "completed"]
                 ELSE [l EXCEPT !.requirements.quizPassed = FALSE, !.quizState = "review"]
      [] OTHER ->
            IF passed(l)
            THEN [l EXCEPT !.requirements.quizPassed = TRUE, !.quizState = "passed"]
            ELSE [l EXCEPT !.requirements.quizPassed = FALSE, !.quizState = "failed"]

\* the messages checkAnswers posts
checkAnswersPosts(l) ==
    IF cfg.variant = "v2.0" /\ ~cfg.feedback THEN << >>
    ELSE IF passed(l) THEN notifyCompletion ELSE notifyReset

CheckAnswers ==
    /\ lm' = checkAnswers(lm)
    /\ posted' = checkAnswersPosts(lm)
    /\ storage' = saveProgress(lm', storage)
    /\ lastOp' = Op("check")
    /\ UNCHANGED <<cfg, win, media, timers>>

\* resetQuiz that forgets to clear requirements.quizPassed
resetQuiz_keepsPassed(l) ==
    [l EXCEPT !.selectedAnswers = << >>,
              !.quizState = InitialQuizState]

\* resetQuiz: the instance after the reset
resetQuiz(l) ==
    [l EXCEPT !.selectedAnswers = << >>,
              !.requirements.quizPassed = FALSE,
              !.quizState = InitialQuizState]

ResetQuiz ==
    /\ lm' = resetQuiz(lm)
    /\ storage' = saveProgress(lm', storage)
    /\ posted' = notifyReset
    /\ lastOp' = Op("reset")
    /\ UNCHANGED <<cfg, win, media, timers>>

---------------------------------------------------------------------------
(* Page reload: pending callbacks die with the page, a new instance is     *)
(* constructed over the stored record, the window is back at the top       *)

Reload ==
    /\ win' = [win EXCEPT !.scrollY = 0]
    /\ media' \in NewMedia
    /\ LET c == Construct(storage, win')
       IN  /\ lm' = c.lm
           /\ timers' = c.timers
           /\ storage' = c.storage
           /\ posted' = c.posted
    /\ lastOp' = Op("load")
    /\ UNCHANGED cfg

\* a step of the tracker leaves the history and the other components alone
Alone == UNCHANGED <<log, widgets, localStorage, otherTab>>

Next ==
    \/ (\E y \in {0, 10, 11} \cup DocHeights : Scroll(y)) /\ Alone
    \/ (\E l \in Layouts : Resize(l)) /\ Alone
    \/ ScrollTimer /\ Alone
    \/ ResizeTimer /\ Alone
    \/ AnimationFrame /\ Alone
    \/ InitTimer /\ Alone
    \/ SaveTimer /\ Alone
    \/ NotifyTimer /\ Alone
    \/ LoadedMetadata /\ Alone
    \/ (\E t \in 0..MaxMediaTime : TimeUpdate(t)) /\ Alone
    \/ Ended /\ Alone
    \/ PlayPause /\ Alone
    \/ (\E q \in 0..(MaxQuestions - 1) : \E a \in LetterSet : HandleAnswerClick(q, a)) /\ Alone
    \/ CheckAnswers /\ Alone
    \/ ResetQuiz /\ Alone
    \/ Reload /\ Alone

Spec == Init /\ [][Next]_vars

TypeOK ==
    /\ Sensible(cfg)
    /\ lm.quizState \in {"active", "review", "completed",
                         "not-started", "in-progress", "failed", "passed"}
    /\ lm.requirements.quizPassed \in BOOLEAN
    /\ Len(storage) <= 1
    /\ timers.resize \in 0..MaxPending

---------------------------------------------------------------------------
(* The quiz alone: pages with up to MaxQuizQuestions question blocks and    *)
(* every passing-score option, driven by the quiz handlers and reloads.     *)

QuizOnlyPages ==
    {p \in {Page(v, e, n, po, f, FALSE, "quiz") :
                v \in Variants, e \in BOOLEAN, n \in 0..MaxQuizQuestions,
                po \in PassingOptions, f \in BOOLEAN} :
        Sensible(p)}

InitQuiz == InitOn(QuizOnlyPages) /\ TrackerOnly

NextQuiz ==
    \/ (\E q \in 0..(MaxQuizQuestions - 1) : \E a \in LetterSet : HandleAnswerClick(q, a)) /\ Alone
    \/ CheckAnswers /\ Alone
    \/ ResetQuiz /\ Alone
    \/ Reload /\ Alone

SpecQuiz == InitQuiz /\ [][NextQuiz]_vars

---------------------------------------------------------------------------
(* The scoring of v2.6 checkAnswers as a function of its inputs: the page   *)
(* (number of questions, passing-score options) and the answers selected.   *)

ScorePages ==
    {Page("v2.6", TRUE, n, po, TRUE, FALSE, "quiz") :
        n \in 1..MaxScoreQuestions, po \in PassingOptions}

\* every selection the answer clicks can build on the page
Selections ==
    {sa \in UNION {[S -> LetterSet] : S \in SUBSET Questions} :
        \A i \in DOMAIN sa : sa[i] \in Options(i)}

InitScore ==
    /\ cfg \in ScorePages
    /\ \E l \in PageLayouts : win = Geometry(l, 0)
    /\ media \in NewMedia
    /\ \E sa \in Selections :
         LET c == Construct(<< >>, win)
         IN  /\ lm = [c.lm EXCEPT !.selectedAnswers = sa,
                                  !.quizState = IF sa = << >> THEN "not-started"
                                                ELSE "in-progress"]
             /\ timers = c.timers
             /\ storage = c.storage
             /\ posted = << >>
    /\ lastOp = IF lm.selectedAnswers = << >> THEN Op("load")
                ELSE LET q == CHOOSE i \in DOMAIN lm.selectedAnswers : TRUE
                     IN  [op |-> "click", q |-> q, a |-> lm.selectedAnswers[q]]
    /\ TrackerOnly

NextScore == CheckAnswers /\ Alone

SpecScore == InitScore /\ [][NextScore]_vars

---------------------------------------------------------------------------
(* Properties *)

Progress == lm.requirements.contentProgress
Ratchets == {"v2.0", "v2.2", "v2.6"}
FourStates == {"v2.2", "v2.4", "v2.6"}

\* a finite number between 0 and 100
InRange(x) == x.k = "num" /\ 0 <= x.n /\ x.n <= 100 * x.d

\* the instance a fresh page load builds from the record saveProgress writes now
RoundTrip == loadProgress(setupMediaTracking(NewLessonManager), saveProgress(lm, storage))

\* C1: in v2.2, v2.4 and v2.6, once quizState is 'passed' it stays 'passed' and
\* quizPassed stays true under every step that is not resetQuiz: answer click,
\* checkAnswers, scroll/media/resize events and their timers, and a page reload
\* followed by any of these.
C1_PassedUntilReset ==
    [][(cfg.variant \in FourStates /\ lm.quizState = "passed" /\ lastOp'.op # "reset")
        => (lm'.quizState = "passed" /\ lm'.requirements.quizPassed)]_vars

\* C2: in every reachable state, saving and then loading into a fresh instance
\* gives back the same contentProgress, quizState and selectedAnswers.
C2_RoundTrip ==
    /\ RoundTrip.requirements.contentProgress = Progress
    /\ RoundTrip.quizState = lm.quizState
    /\ RoundTrip.selectedAnswers = lm.selectedAnswers

\* C3: in the ratchet revisions (v2.0, v2.2, v2.6) no step within a session
\* (any step but the page load) leaves the progress value below what it was:
\* a progress value that is a number is followed by a number at least as large.
C3_Ratchet ==
    [][(cfg.variant \in Ratchets /\ lastOp'.op # "load" /\ Progress.k = "num")
        => (lm'.requirements.contentProgress.k = "num"
            /\ JsGe(lm'.requirements.contentProgress, Progress))]_vars

\* C4: in every revision the progress value held by the tracker is a number
\* in [0,100] in every reachable state, also on a page with nothing to scroll.
C4_ProgressInRange == InRange(Progress)

\* every question has its correct answer selected
AllCorrect(l) ==
    \A i \in Questions :
        i \in DOMAIN l.selectedAnswers /\ l.selectedAnswers[i] = Correct(i)

\* exactly one message of the given type went to the parent in this step
PostedOne(p, type) == Len(p) = 1 /\ p[1].type = type

\* the record in storage holds the quiz fields of the instance l
Saved(st, l) ==
    /\ Len(st) = 1
    /\ st[1].quizState = l.quizState
    /\ st[1].requirements.quizPassed = l.requirements.quizPassed
    /\ st[1].selectedAnswers = l.selectedAnswers

\* C5: in v2.2, v2.4 and v2.6, on an embedded page with at least one question,
\* a checkAnswers step taken with every question answered correctly ends in
\* 'passed' with quizPassed true, stores that record, and posts exactly one
\* message, of type lesson_complete with score 100.
C5_AllCorrectPasses ==
    [][(/\ cfg.variant \in FourStates
        /\ cfg.embedded
        /\ cfg.nq >= 1
        /\ lastOp'.op = "check"
        /\ AllCorrect(lm))
        => (/\ lm'.quizState = "passed"
            /\ lm'.requirements.quizPassed
            /\ Saved(storage', lm')
            /\ PostedOne(posted', "lesson_complete")
            /\ posted'[1].score = 100)]_vars

C5_Witness ==
    /\ cfg.variant \in FourStates
    /\ cfg.embedded
    /\ cfg.nq >= 2
    /\ lastOp.op = "check"
    /\ AllCorrect(lm)
    /\ lm.quizState = "passed"
    /\ PostedOne(posted, "lesson_complete")

\* the passing score the page configures (quizConfig.passingScore before
\* options.passingScore), undefined when it configures none
ConfiguredPassingScore ==
    IF cfg.qcPassing.k # "undefined" THEN cfg.qcPassing ELSE cfg.optPassing

\* correctCount/total*100 >= the configured passing score (100 when none)
ScoreReaches(l) ==
    IF ConfiguredPassingScore.k = "undefined"
    THEN correctCount(l) = cfg.nq
    ELSE correctCount(l) * 100 * ConfiguredPassingScore.d
            >= ConfiguredPassingScore.n * cfg.nq

\* the score is below the passing threshold
BelowThreshold(l) ==
    IF cfg.variant = "v2.6" THEN ~ScoreReaches(l) ELSE ~AllCorrect(l)

\* C6: in v2.2, v2.4 and v2.6, a checkAnswers step taken with the score below
\* the passing threshold (v2.2/v2.4: some question unanswered or wrong) ends in
\* 'failed' with quizPassed false, stores that record, and, when the page has
\* a parent window, posts exactly one message, of type lesson_reset.
C6_BelowThresholdFails ==
    [][(/\ cfg.variant \in FourStates
        /\ cfg.nq >= 1
        /\ lastOp'.op = "check"
        /\ BelowThreshold(lm))
        => (/\ lm'.quizState = "failed"
            /\ ~lm'.requirements.quizPassed
            /\ Saved(storage', lm')
            /\ (cfg.embedded => PostedOne(posted', "lesson_reset")))]_vars

\* C7: in v2.6, for a page with at least one question, checkAnswers ends in
\* 'passed' exactly when correctCount/total*100 >= the configured passingScore
\* (any value 0..100), and exactly when all answers are correct when the page
\* configures no passingScore.
C7_PassRule ==
    [][(cfg.variant = "v2.6" /\ cfg.nq >= 1 /\ lastOp'.op = "check")
        => ((lm'.quizState = "passed") <=> ScoreReaches(lm))]_vars

\* C8: in v2.2, v2.4 and v2.6, an answer click in 'passed' changes neither
\* selectedAnswers nor quizState; in any other state it records the clicked
\* letter for its question, keeps every other question's selection, and changes
\* quizState only from 'not-started' to 'in-progress'.
C8_ClickFrame ==
    [][(cfg.variant \in FourStates /\ lastOp'.op = "click")
        => IF lm.quizState = "passed"
           THEN /\ lm'.selectedAnswers = lm.selectedAnswers
                /\ lm'.quizState = "passed"
           ELSE /\ DOMAIN lm'.selectedAnswers = DOMAIN lm.selectedAnswers \cup {lastOp'.q}
                /\ lm'.selectedAnswers[lastOp'.q] = lastOp'.a
                /\ \A i \in DOMAIN lm.selectedAnswers \ {lastOp'.q} :
                        lm'.selectedAnswers[i] = lm.selectedAnswers[i]
                /\ lm'.quizState =
                        IF lm.quizState = "not-started" THEN "in-progress"
                        ELSE lm.quizState]_vars

\* a click in 'failed' recorded a second answer next to an earlier one
C8_Witness ==
    /\ cfg.variant \in FourStates
    /\ lastOp.op = "click"
    /\ lm.quizState = "failed"
    /\ Cardinality(DOMAIN lm.selectedAnswers) >= 2
    /\ lm.selectedAnswers[lastOp.q] = lastOp.a

\* C9: in every revision a resetQuiz step, from any quiz state, ends in the
\* initial quiz state ('not-started'; 'active' in v2.0) with selectedAnswers
\* empty and quizPassed false, leaves the progress value unchanged, stores
\* that quiz state, and, when the page has a parent window, posts exactly one
\* message, of type lesson_reset.
C9_Reset ==
    [][lastOp'.op = "reset"
        => (/\ lm'.quizState = (IF cfg.variant = "v2.0" THEN "active" ELSE "not-started")
            /\ lm'.selectedAnswers = << >>
            /\ ~lm'.requirements.quizPassed
            /\ lm'.requirements.contentProgress = Progress
            /\ Saved(storage', lm')
            /\ (cfg.embedded => PostedOne(posted', "lesson_reset")))]_vars

\* a reset on an embedded page whose content was read to the end
C9_Witness ==
    /\ lastOp.op = "reset"
    /\ cfg.embedded
    /\ cfg.nq >= 1
    /\ Progress = Hundred
    /\ lm.selectedAnswers = << >>
    /\ PostedOne(posted, "lesson_reset")
    /\ Saved(storage, lm)

---------------------------------------------------------------------------
(* Runs followed as a whole: every handler run appends an entry to log with *)
(* the quiz state it found and left and the types of the messages it posted *)

MaxLog == 5     \* handler runs followed in SpecNotify

Types(p) == [i \in 1..Len(p) |-> p[i].type]

\* the entry of the step just taken; a page load starts a new instance, whose
\* quizState the constructor sets to the initial state before loadProgress
Entry ==
    [op |-> lastOp'.op,
     from |-> IF lastOp'.op = "load" THEN InitialQuizState ELSE lm.quizState,
     to |-> lm'.quizState,
     posts |-> Types(posted')]

Logged(max) == Len(log) < max /\ log' = Append(log, Entry)
               /\ UNCHANGED <<widgets, localStorage, otherTab>>

NotifyPages ==
    {Page(v, e, 1, NoPassingOption, TRUE, FALSE, "quiz") :
        v \in {"v2.2", "v2.4", "v2.6"}, e \in BOOLEAN}

InitNotify == InitOn(NotifyPages) /\ TrackerOnly

NextNotify ==
    \/ (\E q \in Questions : \E a \in LetterSet : HandleAnswerClick(q, a)) /\ Logged(MaxLog)
    \/ CheckAnswers /\ Logged(MaxLog)
    \/ ResetQuiz /\ Logged(MaxLog)
    \/ Reload /\ Logged(MaxLog)
    \/ NotifyTimer /\ Logged(MaxLog)

SpecNotify == InitNotify /\ [][NextNotify]_vars

\* messages of a type posted over the run
Sent(type) ==
    LET n[i \in 0..Len(log)] ==
            IF i = 0 THEN 0
            ELSE n[i - 1] + Cardinality({j \in 1..Len(log[i].posts) : log[i].posts[j] = type})
    IN  n[Len(log)]

\* times quizState changed into one of the states S over the run
ChangedInto(S) ==
    Cardinality({i \in 1..Len(log) : log[i].to \in S /\ log[i].from # log[i].to})

\* C11: in any run the lesson_complete messages posted never outnumber the
\* changes of quizState into 'passed', and the lesson_reset messages never
\* outnumber its changes into 'failed' or 'not-started' (a page load counts as
\* a change into the state it restores).
C11_OncePerTransition ==
    /\ Sent("lesson_complete") <= ChangedInto({"passed"})
    /\ Sent("lesson_reset") <= ChangedInto({"failed", "not-started"})


---------------------------------------------------------------------------
(* v2.6 on a page without a quiz: the global lessonQuiz is undefined, is    *)
(* not an array, or is an empty array.  The stored item is whatever an      *)
(* earlier edition of the lesson, which had a quiz, left under the key.     *)

NoQuizPages ==
    {[Page("v2.6", e, 0, NoPassingOption, TRUE, FALSE, "quiz") EXCEPT !.lessonQuiz = g] :
        e \in BOOLEAN, g \in {NoLessonQuiz, StringLessonQuiz, ArrayOf(0)}}

\* the items saveProgress can have written on an earlier visit
EarlierRecords ==
    {<< >>} \cup
    {<<JSONRecord([NewLessonManager EXCEPT
                        !.quizState = s,
                        !.requirements = [contentProgress |-> c,
                                          quizPassed |-> (s \in {"passed", "completed"})],
                        !.highestScrollProgress = c])>> :
        s \in (IF cfg.variant = "v2.0"
               THEN {"active", "review", "completed"}
               ELSE {"not-started", "in-progress", "failed", "passed"}),
        c \in {Zero, Hundred}}

InitNoQuiz == InitWith(NoQuizPages, EarlierRecords) /\ TrackerOnly

NextNoQuiz ==
    \/ (\E y \in {0, 15} : Scroll(y)) /\ Alone
    \/ ScrollTimer /\ Alone
    \/ InitTimer /\ Alone
    \/ Reload /\ Alone

SpecNoQuiz == InitNoQuiz /\ [][NextNoQuiz]_vars

NoQuizConfigured == cfg.lessonQuiz.kind # "array" \/ cfg.lessonQuiz.length = 0

\* C12: in v2.6 without a configured quiz (lessonQuiz undefined, not an
\* array, or empty) the page load posts to an embedding host exactly one
\* lesson_requirements message with requires_completion, has_quiz and
\* already_completed all false, whatever record is stored; no lesson_complete
\* message is posted and none is scheduled, at load or later.
C12_NoQuizDeclared ==
    (cfg.variant = "v2.6" /\ NoQuizConfigured) =>
        /\ lastOp.op = "load" =>
              /\ Len(posted) = (IF cfg.embedded THEN 1 ELSE 0)
              /\ \A i \in 1..Len(posted) :
                    /\ posted[i].type = "lesson_requirements"
                    /\ ~posted[i].requires_completion
                    /\ ~posted[i].has_quiz
                    /\ ~posted[i].already_completed
        /\ ~timers.notify
        /\ \A i \in 1..Len(posted) : posted[i].type # "lesson_complete"

\* a page with a string for lessonQuiz is loaded over a record stored as passed
C12_Witness ==
    /\ cfg.variant = "v2.6" /\ cfg.embedded
    /\ cfg.lessonQuiz = StringLessonQuiz
    /\ lastOp.op = "load"
    /\ storage # << >> /\ storage[1].requirements.quizPassed
    /\ lm.requirements.quizPassed
    /\ Len(posted) = 1



---------------------------------------------------------------------------
(* Storage that fails: pages on which localStorage refuses writes or every  *)
(* access, and stored items that are not JSON.                              *)

StoragePages ==
    {[Page(v, TRUE, 1, NoPassingOption, TRUE, FALSE, "quiz") EXCEPT !.storageFault = f] :
        v \in Variants, f \in {"none", "quota", "denied"}}

InitStorage == InitWith(StoragePages, EarlierRecords \cup {<<CorruptItem>>}) /\ TrackerOnly

NextStorage ==
    \/ (\E y \in {0, 15} : Scroll(y)) /\ Alone
    \/ ScrollTimer /\ Alone
    \/ AnimationFrame /\ Alone
    \/ InitTimer /\ Alone
    \/ SaveTimer /\ Alone
    \/ NotifyTimer /\ Alone
    \/ (\E q \in Questions : \E a \in LetterSet : HandleAnswerClick(q, a)) /\ Alone
    \/ CheckAnswers /\ Alone
    \/ ResetQuiz /\ Alone
    \/ Reload /\ Alone

SpecStorage == InitStorage /\ [][NextStorage]_vars

\* the read or the parse of the stored item throws
LoadThrows == cfg.storageFault = "denied" \/ storage = <<CorruptItem>>
\* the write of the stored item throws
SaveThrows == cfg.storageFault \in {"quota", "denied"}

DefaultState ==
    /\ Progress = Zero
    /\ ~lm.requirements.quizPassed
    /\ lm.quizState = InitialQuizState
    /\ lm.selectedAnswers = << >>

\* C13: a page load whose storage read or JSON parse throws leaves the
\* tracker in exactly the default state (progress 0, quizPassed false, the
\* initial quiz state, no answers) and still declares the requirements to
\* the host; on a page whose storage write throws no step changes the stored
\* item, and the save callback leaves the in-memory state as it was.
C13_StorageFailures ==
    [][/\ (lastOp'.op = "load" /\ LoadThrows) =>
            /\ DefaultState'
            /\ \E i \in 1..Len(posted') : posted'[i].type = "lesson_requirements"
       /\ SaveThrows => storage' = storage
       /\ (SaveThrows /\ timers'.save < timers.save /\ lastOp'.op = "timer") => lm' = lm
      ]_vars

\* on a page whose storage refuses every access the load could not read the
\* stored record of a failed attempt, and the pass that followed was not saved
C13_Witness ==
    /\ cfg.storageFault = "denied"
    /\ lastOp.op = "check" /\ lm.requirements.quizPassed
    /\ storage # << >> /\ storage # <<CorruptItem>>
    /\ storage[1].quizState = "failed"


---------------------------------------------------------------------------
(* Absent DOM elements *)

\* C14: checkAnswers performs its full state change whether or not the
\* #quizFeedback element exists, in every variant: after it the quiz is in
\* a graded state, quizPassed says whether every answer was correct or the
\* score reached the threshold, and an embedded page has posted its message.
C14_FullStateChange ==
    [][(lastOp'.op = "check" /\ cfg.nq >= 1) =>
            /\ lm'.quizState \in {"review", "completed", "failed", "passed"}
            /\ lm'.requirements.quizPassed = (lm'.quizState \in {"completed", "passed"})
            /\ cfg.embedded => Len(posted') = 1
      ]_vars


---------------------------------------------------------------------------
(* Changes reach the stored record *)

\* some callback is still scheduled
TimerPending ==
    timers.scroll \/ timers.resize > 0 \/ timers.raf \/ timers.init
        \/ timers.save > 0 \/ timers.notify

\* the stored record holds the tracked state of the instance
SavedAll ==
    /\ Saved(storage, lm)
    /\ storage[1].requirements.contentProgress = JSONNumber(Progress)

\* C15: in v2.2, v2.4 and v2.6 a change of contentProgress, quizState or
\* selectedAnswers made by a handler is on its way to the stored record: the
\* step that makes it either leaves the record holding the new state or
\* leaves a callback scheduled, so that a save can still follow when nothing
\* but the pending timers happens afterwards.
C15_ChangeIsSavedOrPending ==
    [][(/\ cfg.variant \in FourStates
        /\ lastOp'.op # "load"
        /\ \/ Progress' # Progress
           \/ lm'.quizState # lm.quizState
           \/ lm'.selectedAnswers # lm.selectedAnswers)
       => (SavedAll' \/ TimerPending')]_vars


---------------------------------------------------------------------------
(* ThemeToggle (theme-toggle.js) and LessonUI (lesson-ui.js) waiting for    *)
(* what they look up: the #themeToggleCheckbox element and the global       *)
(* window.lessonManager.  widgets.pending says which 100 ms callbacks are   *)
(* scheduled, widgets.attempts counts the lookups each component has made.  *)

MaxAttempts == 3     \* lookups counted per component

Lookups == {"setupCheckboxListener", "updateToggleState", "checkForLessonManager"}

\* what the lookup finds on the page d
Found(c, d) == IF c = "checkForLessonManager" THEN d.lessonManager ELSE d.checkbox

\* one run of a lookup: bind or set what it found (updateToggleState sets
\* the checkbox from the theme it was scheduled with), or schedule itself
\* again after 100 ms
Attempt(w, c) ==
    IF Found(c, w)
    THEN [w EXCEPT !.pending[c] = FALSE,
                   !.attempts[c] = @ + 1,
                   !.bound[c] = TRUE,
                   !.checked = IF c = "updateToggleState" THEN w.updateArg = "dark" ELSE @]
    ELSE [w EXCEPT !.pending[c] = TRUE,
                   !.attempts[c] = @ + 1]

\* new ThemeToggle() and new LessonUI() on a page: initTheme schedules
\* updateToggleState, setupCheckboxListener and checkForLessonManager run at once
NewWidgets(theme, checkbox, lessonManager) ==
    Attempt(Attempt([present |-> TRUE, theme |-> theme, checkbox |-> checkbox,
                     lessonManager |-> lessonManager, checked |-> FALSE,
                     updateArg |-> theme,
                     pending |-> [c \in Lookups |-> c = "updateToggleState"],
                     bound |-> [c \in Lookups |-> FALSE],
                     attempts |-> [c \in Lookups |-> 0]],
                    "setupCheckboxListener"),
            "checkForLessonManager")

WidgetPages == {Page("v2.6", TRUE, 0, NoPassingOption, TRUE, FALSE, "quiz")}

InitWidgets ==
    /\ InitOn(WidgetPages)
    /\ log = << >>
    /\ \E theme \in {"light", "dark"}, checkbox \in BOOLEAN, lessonManager \in BOOLEAN :
            widgets = NewWidgets(theme, checkbox, lessonManager)
    /\ OneTab

Tracker == <<cfg, win, media, lm, storage, timers, posted, lastOp, log,
             localStorage, otherTab>>

\* a scheduled 100 ms callback runs its lookup
RetryTimer(c) ==
    /\ widgets.pending[c]
    /\ widgets.attempts[c] < MaxAttempts
    /\ widgets' = Attempt(widgets, c)
    /\ UNCHANGED Tracker

\* the page inserts the checkbox element
CheckboxAppears ==
    /\ ~widgets.checkbox
    /\ widgets' = [widgets EXCEPT !.checkbox = TRUE]
    /\ UNCHANGED Tracker

\* the tracker's script assigns window.lessonManager
LessonManagerAppears ==
    /\ ~widgets.lessonManager
    /\ widgets' = [widgets EXCEPT !.lessonManager = TRUE]
    /\ UNCHANGED Tracker

\* 'change' on the checkbox, heard once setupCheckboxListener has bound it
CheckboxChange ==
    /\ widgets.bound["setupCheckboxListener"]
    /\ widgets' = [widgets EXCEPT !.checked = ~@,
                                  !.theme = IF widgets.checked THEN "light" ELSE "dark"]
    /\ UNCHANGED Tracker

NextWidgets ==
    \/ \E c \in Lookups : RetryTimer(c)
    \/ CheckboxAppears
    \/ LessonManagerAppears
    \/ CheckboxChange

SpecWidgets == InitWidgets /\ [][NextWidgets]_vars

\* C16: a component whose lookup keeps failing gives up: once it has made
\* MaxAttempts attempts, no re-attempt of that lookup is scheduled.
C16_BoundedAttempts ==
    \A c \in Lookups : widgets.attempts[c] >= MaxAttempts => ~widgets.pending[c]


---------------------------------------------------------------------------
(* The media percentage: pages with a media element whose duration is 1 to  *)
(* MaxDuration seconds, played, watched, ended and reloaded.                *)

MaxDuration == 3     \* longest media duration, in seconds

MediaOnlyPages ==
    {[Page(v, TRUE, 0, NoPassingOption, TRUE, TRUE, "media") EXCEPT !.duration = d] :
        v \in {"v2.2", "v2.4"}, d \in 1..MaxDuration}

InitMedia == InitOn(MediaOnlyPages) /\ TrackerOnly

NextMedia ==
    \/ LoadedMetadata /\ Alone
    \/ (\E t \in 0..(MaxDuration + 1) : TimeUpdate(t)) /\ Alone
    \/ Ended /\ Alone
    \/ PlayPause /\ Alone
    \/ InitTimer /\ Alone
    \/ SaveTimer /\ Alone
    \/ Reload /\ Alone

SpecMedia == InitMedia /\ [][NextMedia]_vars

\* the media percentage trackContent computes from the instance
MediaPercentage ==
    IF cfg.variant = "v2.2" THEN mediaProgress22(lm) ELSE mediaProgress24(lm)

DurationKnown == lm.hasMedia /\ lm.mediaDuration > 0

\* watched time capped at the duration: clamp(W/D*100, 0, 100) = 100 * Capped / D
Capped == IF lm.mediaWatched > lm.mediaDuration THEN lm.mediaDuration ELSE lm.mediaWatched

\* x is the number clamp(W/D*100, 0, 100)
IsClamped(x) == x.k = "num" /\ x.n * lm.mediaDuration = x.d * 100 * Capped

\* x is the integer nearest to clamp(W/D*100, 0, 100), halves rounded up
IsClampedRounded(x) ==
    /\ x.k = "num" /\ x.d = 1
    /\ 2 * x.n * lm.mediaDuration <= 200 * Capped + lm.mediaDuration
    /\ 2 * x.n * lm.mediaDuration > 200 * Capped - lm.mediaDuration

---------------------------------------------------------------------------
(* The scroll percentage as a function of the scroll position *)

\* the scroll percentage one call of the estimator computes at position y of
\* the current page dimensions
ScrollPercentage(y) ==
    LET w == [win EXCEPT !.scrollY = y]
    IN  CASE cfg.variant = "v2.2" -> scrollProgress22(w)
          [] cfg.variant = "v2.4" -> scrollProgress24(w)
          [] OTHER -> currentScrollProgress(w)

\* the scrollable distance S the estimator measures against: down to the end
\* of the content where v2.4/v2.6 find a content element, otherwise down to
\* the end of the document
ScrollableDistance ==
    IF cfg.variant # "v2.2" /\ win.contentEnd # NoContentEnd
    THEN (IF win.contentEnd > win.innerHeight THEN win.contentEnd - win.innerHeight ELSE 0)
    ELSE win.scrollHeight - win.innerHeight

---------------------------------------------------------------------------
(* A graded run of the quiz in v2.6: two questions, the page load followed  *)
(* by answer clicks, checkAnswers and resetQuiz.  The log keeps one entry   *)
(* for the page load and one per checkAnswers or resetQuiz, with the        *)
(* answers selected when the handler ran.                                   *)

MaxRun == 4     \* log entries of SpecScenario: the page load and three handler runs

\* checkAnswers calling showCelebration on a failed attempt as well
checkAnswersCelebrates_always(l) == cfg.variant = "v2.6" /\ cfg.showCelebration

\* v2.6 checkAnswers calls showCelebration: if (passed) { ... if (this.quizConfig.showCelebration) ... }
checkAnswersCelebrates(l) == cfg.variant = "v2.6" /\ passed(l) /\ cfg.showCelebration

LoadEntry ==
    [op |-> "load", answers |-> << >>, score |-> Undefined, to |-> lm.quizState,
     posts |-> Types(posted), celebrated |-> FALSE]

RunEntry ==
    [op |-> lastOp'.op,
     answers |-> lm.selectedAnswers,
     score |-> IF lastOp'.op = "check" THEN scorePercentage(lm) ELSE Undefined,
     to |-> lm'.quizState,
     posts |-> Types(posted'),
     celebrated |-> lastOp'.op = "check" /\ checkAnswersCelebrates(lm)]

LoggedRun == Len(log) < MaxRun /\ log' = Append(log, RunEntry)
             /\ UNCHANGED <<widgets, localStorage, otherTab>>

ScenarioPages ==
    {Page("v2.6", TRUE, 2, po, TRUE, FALSE, "quiz") :
        po \in {NoPassingOption, <<Int2Num(50), Undefined>>}}

InitScenario ==
    InitOn(ScenarioPages) /\ log = <<LoadEntry>> /\ widgets = NoWidgets /\ OneTab

NextScenario ==
    \/ (\E q \in Questions : \E a \in LetterSet : HandleAnswerClick(q, a)) /\ Alone
    \/ CheckAnswers /\ LoggedRun
    \/ ResetQuiz /\ LoggedRun

SpecScenario == InitScenario /\ [][NextScenario]_vars

Answers(x, y) == [i \in {0, 1} |-> IF i = 0 THEN x ELSE y]

\* how many entries of the log post a message of the type
Posting(type) ==
    Cardinality({i \in 1..Len(log) : \E j \in 1..Len(log[i].posts) : log[i].posts[j] = type})

\* the run of the scenario: embedded v2.6 page with default options, two
\* questions (correct answers a and b); a and c selected, checkAnswers,
\* resetQuiz, a and b selected, checkAnswers
ScenarioRun ==
    /\ cfg.variant = "v2.6" /\ cfg.embedded /\ cfg.nq = 2
    /\ cfg.optPassing = Undefined /\ cfg.qcPassing = Undefined
    /\ Len(log) = 4
    /\ log[1].op = "load"
    /\ log[2].op = "check" /\ log[2].answers = Answers("a", "c")
    /\ log[3].op = "reset"
    /\ log[4].op = "check" /\ log[4].answers = Answers("a", "b")

\* C19: on the run of the scenario the first checkAnswers scores 50 and ends
\* in 'failed'; the second scores 100, ends in 'passed', calls showCelebration
\* (the only call of the run) and posts lesson_complete; that is the only
\* lesson_complete of the run and every lesson_reset was posted before it.
C19_Scenario ==
    ScenarioRun =>
        /\ log[2].score = Int2Num(50) /\ log[2].to = "failed"
        /\ log[4].score = Hundred /\ log[4].to = "passed"
        /\ lm.quizState = "passed" /\ lm.requirements.quizPassed
        /\ log[4].celebrated
        /\ Cardinality({i \in 1..4 : log[i].celebrated}) = 1
        /\ log[4].posts = <<"lesson_complete">>
        /\ Posting("lesson_complete") = 1
        /\ Posting("lesson_reset") = 2
        /\ \A i \in 1..3 : \A j \in 1..Len(log[i].posts) : log[i].posts[j] # "lesson_complete"

C19_Witness == ScenarioRun /\ lastOp.op = "check"


---------------------------------------------------------------------------
(* quizPassed and quizState agree *)

\* C20: in v2.2, v2.4 and v2.6, from empty storage written by that variant
\* alone, requirements.quizPassed is true exactly when quizState is 'passed',
\* in every reachable state, page reloads included.
C20_PassedFlagMatchesState ==
    cfg.variant \in FourStates =>
        (lm.requirements.quizPassed <=> lm.quizState = "passed")

\* a page reloaded over the record of a passed quiz
C20_Witness ==
    /\ cfg.variant \in FourStates
    /\ lastOp.op = "load"
    /\ storage # << >>
    /\ lm.requirements.quizPassed /\ lm.quizState = "passed"


---------------------------------------------------------------------------
(* Completion messages and the quiz state *)

\* C21: in v2.2, v2.4 and v2.6, whenever a step posts lesson_complete to the
\* parent, quizPassed is true and quizState is 'passed' as the message goes
\* out; this covers the message the 500 ms callback of v2.6 init posts.
C21_CompleteOnlyWhenPassed ==
    (cfg.variant \in FourStates
        /\ \E i \in 1..Len(posted) : posted[i].type = "lesson_complete")
    => (lm.requirements.quizPassed /\ lm.quizState = "passed")


\* the global lessonQuiz of the page is a non-empty array
QuizExists == cfg.lessonQuiz.kind = "array" /\ cfg.lessonQuiz.length > 0
\* the record under the lesson's key says the quiz was passed
StoredPassed == storage # << >> /\ storage[1].requirements.quizPassed

\* C22: in v2.6 a page load inside a parent window posts exactly one
\* message, a lesson_requirements, before anything else is posted, and its
\* already_completed flag says that a quiz exists and the stored record has
\* quizPassed = true: the record is loaded before the declaration.
C22_LoadThenDeclare ==
    (cfg.variant = "v2.6" /\ cfg.embedded /\ lastOp.op = "load") =>
        /\ Len(posted) = 1
        /\ posted[1].type = "lesson_requirements"
        /\ posted[1].already_completed = (QuizExists /\ StoredPassed)

\* a v2.6 page with a quiz loaded over a record stored as passed
C22_Witness ==
    /\ cfg.variant = "v2.6" /\ cfg.embedded /\ lastOp.op = "load"
    /\ QuizExists /\ StoredPassed
    /\ Len(posted) = 1 /\ posted[1].already_completed


---------------------------------------------------------------------------
(* The end of the media *)

\* C23: in v2.2 and v2.4, when the media element fires 'ended',
\* contentProgress is 100 once the handler has returned, whether the
\* element's 'loadedmetadata' came after the listeners were registered or
\* before.
C23_EndedMeansComplete ==
    [][(cfg.variant \in {"v2.2", "v2.4"} /\ Ended) => Progress' = Hundred]_vars


---------------------------------------------------------------------------
(* The debounced save of v2.2 and v2.4 *)

\* C24: in v2.2 and v2.4 at most one debounced save timer is pending at any
\* time, because each trackContent call cancels the pending one before it
\* schedules the next; and when the save timer fires, the record it writes
\* is the tracker's state at that moment, which the callback leaves as it is.
C24_OneDebouncedSave ==
    /\ [](cfg.variant \in {"v2.2", "v2.4"} => timers.save <= 1)
    /\ [][(cfg.variant \in {"v2.2", "v2.4"} /\ SaveTimer) =>
            /\ lm' = lm
            /\ storage' # << >>
            /\ storage'[1].quizState = lm.quizState
            /\ storage'[1].selectedAnswers = lm.selectedAnswers
            /\ storage'[1].requirements.quizPassed = lm.requirements.quizPassed
            /\ storage'[1].requirements.contentProgress = JSONNumber(Progress)
            /\ storage'[1].mediaWatched = Int2Num(lm.mediaWatched)
            /\ timers'.save = 0
      ]_vars

\* the save timer has fired and written an answer clicked while it was
\* pending: only the timer writes a record that is 'in-progress'
C24_Witness ==
    /\ cfg.variant \in {"v2.2", "v2.4"}
    /\ lastOp.op = "timer" /\ timers.save = 0
    /\ storage # << >>
    /\ storage[1].quizState = "in-progress"
    /\ storage[1].selectedAnswers # << >>
    /\ SavedAll


---------------------------------------------------------------------------
(* Recomputations scheduled by scroll and resize events *)

\* the recomputations of progress that scroll and resize events have
\* scheduled and that have not run yet
PendingRecomputes ==
    (IF timers.scroll THEN 1 ELSE 0) + (IF timers.raf THEN 1 ELSE 0) + timers.resize

\* C25: in v2.2, v2.4 and v2.6 at most one recomputation scheduled by a
\* scroll or resize event is pending at any time: an event arriving while
\* one is pending replaces it.
C25_OnePendingRecompute ==
    cfg.variant \in FourStates => PendingRecomputes <= 1


---------------------------------------------------------------------------
(* v2.4 on a long page, with and without a media element: the progress      *)
(* follows the value of the last trackContent call.                         *)

LongPages ==
    {Page("v2.4", TRUE, 0, NoPassingOption, TRUE, m, "long") : m \in BOOLEAN}

InitLong == InitOn(LongPages) /\ TrackerOnly

NextLong ==
    \/ (\E y \in PageOffsets(LongLayout) : Scroll(y)) /\ Alone
    \/ (\E l \in {LongLayout} : Resize(l)) /\ Alone
    \/ AnimationFrame /\ Alone
    \/ ResizeTimer /\ Alone
    \/ InitTimer /\ Alone
    \/ SaveTimer /\ Alone
    \/ LoadedMetadata /\ Alone
    \/ (\E t \in 0..MaxMediaTime : TimeUpdate(t)) /\ Alone
    \/ Ended /\ Alone
    \/ PlayPause /\ Alone
    \/ Reload /\ Alone

SpecLong == InitLong /\ [][NextLong]_vars

\* max(media percentage, scroll percentage) of the instance l and window w
Instantaneous(l, w) == MathMax(mediaProgress24(l), scrollProgress24(w))

\* the finite numbers a and b are more than 0.5 apart
Far(a, b) ==
    /\ a.k = "num" /\ b.k = "num"
    /\ \/ 2 * (a.n * b.d - b.n * a.d) > a.d * b.d
       \/ 2 * (b.n * a.d - a.n * b.d) > a.d * b.d

\* a step in which v2.4 calls trackContent
TrackContentStep ==
    \/ AnimationFrame
    \/ ResizeTimer
    \/ InitTimer
    \/ LoadedMetadata
    \/ Ended
    \/ lm.mediaDuration > 0 /\ \E t \in 0..MaxMediaTime : TimeUpdate(t)

\* C26: in v2.4, after every trackContent call contentProgress is within 0.5
\* of max(media percentage, scroll percentage) of that call: it is replaced
\* by that value, upwards or downwards, when the two were more than 0.5
\* apart, and left unchanged otherwise.
C26_FollowsInstantaneous ==
    [][(cfg.variant = "v2.4" /\ TrackContentStep) =>
            /\ ~Far(Progress', Instantaneous(lm', win'))
            /\ Far(Progress, Instantaneous(lm', win')) => Progress' = Instantaneous(lm', win')
            /\ ~Far(Progress, Instantaneous(lm', win')) => Progress' = Progress
      ]_vars

\* scrolled from 10 px to 11 px of 200: the value of the call is 5.5 and the
\* progress stays at 5
C26_Witness ==
    /\ cfg.variant = "v2.4"
    /\ win.scrollY = 11 /\ ~timers.raf /\ lastOp.op = "timer"
    /\ Progress = Int2Num(5)
    /\ Instantaneous(lm, win) # Progress


---------------------------------------------------------------------------
(* v2.4 and v2.6 side by side on the quiz.  Both start a page in the same   *)
(* quiz state, so they stay together through a sequence of calls exactly    *)
(* when every call v2.6 makes from a state gives what v2.4 gives from it.   *)

\* what the v2.4 handlers make of the quiz fields of an instance l
handleAnswerClick24(l, q, a) ==
    IF l.quizState = "passed" THEN l
    ELSE [l EXCEPT !.quizState = IF @ = "not-started" THEN "in-progress" ELSE @,
                   !.selectedAnswers = Select(@, q, a)]

allCorrect24(l) == correctCount(l) = cfg.nq

checkAnswers24(l) ==
    IF allCorrect24(l)
    THEN [l EXCEPT !.quizState = "passed", !.requirements.quizPassed = TRUE]
    ELSE [l EXCEPT !.quizState = "failed", !.requirements.quizPassed = FALSE]

resetQuiz24(l) ==
    [l EXCEPT !.selectedAnswers = << >>,
              !.requirements.quizPassed = FALSE,
              !.quizState = "not-started"]

\* the instance and the messages v2.4 leaves when the call named by op is
\* made on the instance l
Step24(l, op) ==
    CASE op.op = "click" -> [lm |-> handleAnswerClick24(l, op.q, op.a), posted |-> << >>]
      [] op.op = "check" ->
            [lm |-> checkAnswers24(l),
             posted |-> IF allCorrect24(l) THEN notifyCompletion ELSE notifyReset]
      [] OTHER -> [lm |-> resetQuiz24(l), posted |-> notifyReset]

DefaultPassingScore == cfg.optPassing = Undefined /\ cfg.qcPassing = Undefined

\* C27: with the passing score left at its default, on any number of
\* questions (none included) every answer click, checkAnswers and resetQuiz
\* of v2.6 (and of v2.4 itself) leaves the quizState, quizPassed and
\* selected answers, and posts the lesson_complete / lesson_reset messages,
\* that v2.4 leaves and posts when the same call is made in the same state.
C27_SameQuizAsV24 ==
    [][(/\ cfg.variant \in {"v2.4", "v2.6"}
        /\ DefaultPassingScore
        /\ lastOp'.op \in {"click", "check", "reset"})
       => /\ lm'.quizState = Step24(lm, lastOp').lm.quizState
          /\ lm'.requirements.quizPassed = Step24(lm, lastOp').lm.requirements.quizPassed
          /\ lm'.selectedAnswers = Step24(lm, lastOp').lm.selectedAnswers
          /\ Types(posted') = Types(Step24(lm, lastOp').posted)
      ]_vars


---------------------------------------------------------------------------
(* v2.6: contentProgress and highestScrollProgress *)

\* the larger of two finite numbers
Larger(a, b) == IF a.n * b.d >= b.n * a.d THEN a ELSE b

\* a step in which v2.6 calls trackScrollProgress
TrackScrollStep == ScrollTimer \/ ResizeTimer \/ InitTimer

\* C28: in v2.6 contentProgress equals highestScrollProgress in every
\* reachable state, and both are the largest scroll percentage computed so
\* far or restored: a page load sets them to the stored highest value (0
\* without a record), a trackScrollProgress call to the larger of the value
\* held and the percentage it computes, and no other step changes them.
C28_HighestScrollProgress ==
    /\ [](cfg.variant = "v2.6" => Progress = lm.highestScrollProgress)
    /\ [][cfg.variant = "v2.6" =>
            lm'.highestScrollProgress =
                (CASE lastOp'.op = "load" ->
                        IF storage = << >> THEN Zero
                        ELSE storage[1].highestScrollProgress
                   [] TrackScrollStep ->
                        Larger(lm.highestScrollProgress, currentScrollProgress(win'))
                   [] OTHER -> lm.highestScrollProgress)
      ]_vars

\* scrolled to the end and back to the top: both still hold 100, and the
\* record holds it too
C28_Witness ==
    /\ cfg.variant = "v2.6"
    /\ win.scrollY = 0 /\ lastOp.op = "timer"
    /\ lm.highestScrollProgress = Hundred /\ Progress = Hundred
    /\ storage # << >> /\ storage[1].highestScrollProgress = Hundred


---------------------------------------------------------------------------
(* localStorage key by key: the items of two lessons and the theme key,     *)
(* under a tracker of either lesson.                                        *)

LessonIds == {"1", "2"}
StorageKeys == {"lesson_1_progress", "lesson_2_progress", "theme"}

KeyPages ==
    {[Page(v, TRUE, 1, NoPassingOption, TRUE, FALSE, "quiz") EXCEPT !.lessonId = i] :
        v \in Variants, i \in LessonIds}

\* the tracker's item is the one under its key; the other lesson's item is
\* absent or a record of an earlier visit, and a theme is stored
InitKeys ==
    /\ InitWith(KeyPages, EarlierRecords)
    /\ log = << >> /\ widgets = NoWidgets /\ otherTab = NoTab
    /\ \E o \in {st \in EarlierRecords :
                    st = << >> \/ st[1].requirements.contentProgress = Hundred} :
         localStorage =
            [k \in StorageKeys |->
                IF k = StorageKey(cfg.lessonId) THEN storage
                ELSE IF k = "theme" THEN <<"dark">> ELSE o]

\* getItem and setItem go through the tracker's key: the item a step leaves
\* under that key is the one it stored, and it touches no other key
Keyed ==
    /\ localStorage' =
            [k \in DOMAIN localStorage |->
                IF k = StorageKey(cfg.lessonId) THEN storage' ELSE localStorage[k]]
    /\ UNCHANGED <<log, widgets, otherTab>>

NextKeys ==
    \/ (\E y \in {0, 15} : Scroll(y)) /\ Keyed
    \/ ScrollTimer /\ Keyed
    \/ AnimationFrame /\ Keyed
    \/ InitTimer /\ Keyed
    \/ SaveTimer /\ Keyed
    \/ NotifyTimer /\ Keyed
    \/ (\E q \in Questions : \E a \in LetterSet : HandleAnswerClick(q, a)) /\ Keyed
    \/ CheckAnswers /\ Keyed
    \/ ResetQuiz /\ Keyed
    \/ Reload /\ Keyed

SpecKeys == InitKeys /\ [][NextKeys]_vars

\* C29: every step of the tracker leaves the item of every key other than
\* lesson_<lessonId>_progress of its own lesson id as it was (the other
\* lesson's record, the theme), and removes no item: a record that exists
\* exists after the step, so in every later state
C29_OwnKeyOnly ==
    [][\A k \in DOMAIN localStorage :
          /\ k # "lesson_" \o cfg.lessonId \o "_progress" =>
                localStorage'[k] = localStorage[k]
          /\ localStorage[k] # << >> => localStorage'[k] # << >>]_vars

\* the tracker of lesson 2 has checked the quiz and written its record,
\* beside a record of lesson 1 and the theme
C29_Witness ==
    /\ cfg.lessonId = "2"
    /\ lastOp.op = "check"
    /\ localStorage["lesson_2_progress"] # << >>
    /\ localStorage["lesson_2_progress"] = storage
    /\ localStorage["lesson_1_progress"] # << >>
    /\ localStorage["lesson_1_progress"] # localStorage["lesson_2_progress"]
    /\ localStorage["theme"] = <<"dark">>


---------------------------------------------------------------------------
(* Two tabs on the same lesson: two instances, each with its own window and *)
(* timers, over the one stored item.  The variables hold the tab whose      *)
(* handler runs next and otherTab holds the other one; SwitchTab exchanges  *)
(* them, so the handlers of the two tabs interleave in every order.         *)

TabPages ==
    {Page(v, TRUE, 0, NoPassingOption, TRUE, FALSE, "long") : v \in {"v2.2", "v2.6"}}

Tab(w, m, c, o) ==
    [present |-> TRUE, win |-> w, media |-> m, lm |-> c.lm, timers |-> c.timers,
     posted |-> c.posted, lastOp |-> o]

\* the first tab is constructed on a first visit, the second one right after it
InitTabs ==
    /\ cfg \in TabPages
    /\ \E l \in PageLayouts : \E m \in NewMedia :
         LET w == Geometry(l, 0)
             first == Construct(<< >>, w)
             second == Construct(first.storage, w)
         IN  /\ otherTab = Tab(w, m, first, Op("load"))
             /\ win = w
             /\ media = m
             /\ lm = second.lm
             /\ timers = second.timers
             /\ storage = second.storage
             /\ posted = second.posted
    /\ lastOp = Op("load")
    /\ log = << >> /\ widgets = NoWidgets /\ localStorage = NoItems

\* the next handler to run belongs to the other tab
SwitchTab ==
    /\ otherTab.present
    /\ win' = otherTab.win
    /\ media' = otherTab.media
    /\ lm' = otherTab.lm
    /\ timers' = otherTab.timers
    /\ posted' = otherTab.posted
    /\ lastOp' = otherTab.lastOp
    /\ otherTab' = Tab(win, media, [lm |-> lm, timers |-> timers, posted |-> posted], lastOp)
    /\ UNCHANGED <<cfg, storage, log, widgets, localStorage>>

NextTabs ==
    \/ (\E y \in {0, 10, MaxScrollY(LongLayout)} : Scroll(y)) /\ Alone
    \/ ScrollTimer /\ Alone
    \/ InitTimer /\ Alone
    \/ SaveTimer /\ Alone
    \/ Reload /\ Alone
    \/ SwitchTab

SpecTabs == InitTabs /\ [][NextTabs]_vars

\* C30: with two tabs of a ratchet revision (v2.2, v2.6) on the same lesson,
\* no write of the stored record lowers its contentProgress: from any state
\* with a record to the next, the stored contentProgress is at least what it
\* was
C30_StoredNeverDecreases ==
    [][(cfg.variant \in {"v2.2", "v2.6"} /\ storage # << >> /\ storage' # << >>) =>
            JsGe(storage'[1].requirements.contentProgress,
                 storage[1].requirements.contentProgress)]_vars


---------------------------------------------------------------------------
(* ProgressBar (zoom controls): currentZoom and the item 'lessonZoomLevel'  *)
(* of localStorage, beside a tracker that is left alone.                    *)

minZoom == 75
maxZoom == 150
zoomStep == 10

\* the largest zoom level found stored when the page opens
MaxSavedZoom == 200

\* constructor: currentZoom = 100; savedZoom is the stored item, if any
NewProgressBar(saved) ==
    [present |-> TRUE, component |-> "ProgressBar", currentZoom |-> 100,
     savedZoom |-> saved]

\* applyZoom: stores the level (font size and display follow currentZoom)
applyZoom(pb) == [pb EXCEPT !.savedZoom = <<pb.currentZoom>>]

zoomIn(pb) ==
    IF pb.currentZoom < maxZoom
    THEN applyZoom([pb EXCEPT !.currentZoom = @ + zoomStep])
    ELSE pb

zoomOut(pb) ==
    IF pb.currentZoom > minZoom
    THEN applyZoom([pb EXCEPT !.currentZoom = @ - zoomStep])
    ELSE pb

resetZoom(pb) == applyZoom([pb EXCEPT !.currentZoom = 100])

Lower(a, b) == IF a < b THEN a ELSE b
Higher(a, b) == IF a > b THEN a ELSE b

\* loadSavedZoom: a stored item is a non-empty string, hence truthy
loadSavedZoom(pb) ==
    IF pb.savedZoom # << >>
    THEN applyZoom([pb EXCEPT !.currentZoom =
                        Lower(maxZoom, Higher(minZoom, pb.savedZoom[1]))])
    ELSE pb

InitZoom ==
    /\ InitOn(WidgetPages)
    /\ log = << >>
    /\ OneTab
    /\ \E saved \in {<< >>} \cup {<<z>> : z \in 0..MaxSavedZoom} :
            widgets = NewProgressBar(saved)

ZoomIn == widgets' = zoomIn(widgets) /\ UNCHANGED Tracker
ZoomOut == widgets' = zoomOut(widgets) /\ UNCHANGED Tracker
ResetZoom == widgets' = resetZoom(widgets) /\ UNCHANGED Tracker
LoadSavedZoom == widgets' = loadSavedZoom(widgets) /\ UNCHANGED Tracker

NextZoom ==
    \/ ZoomIn
    \/ ZoomOut
    \/ ResetZoom
    \/ LoadSavedZoom

SpecZoom == InitZoom /\ [][NextZoom]_vars

\* C31: after any sequence of zoomIn, zoomOut, resetZoom and loadSavedZoom,
\* over any stored integer zoom level, currentZoom is within
\* [minZoom, maxZoom] = [75, 150]
C31_ZoomInRange == widgets.currentZoom \in minZoom..maxZoom


---------------------------------------------------------------------------
(* CompletionManager v2.0: the celebration overlay (#celebrationOverlay),   *)
(* its classes and inline display, and the pending fade-out timers.  Time   *)
(* advances in steps of the shortest delay; a timer that is due runs before *)
(* time advances further, timers of one kind in the order they were set.    *)

\* setTimeout delays of showCelebration, in ms
FadeDelay == 3000
RemoveDelay == 500

\* calls of showCelebration whose fade-out timer is still pending
MaxShows == 2

\* init: ensureOverlayExists has created the overlay, class 'celebration-overlay'
NewCompletionManager ==
    [present |-> TRUE, component |-> "CompletionManager",
     show |-> FALSE, hide |-> FALSE, display |-> "",
     fades |-> << >>,       \* ms left of each pending 3000 ms timer
     removes |-> << >>,     \* ms left of each pending 500 ms timer
     called |-> FALSE,      \* showCelebration has been called
     since |-> 0]           \* ms since the last call, up to FadeDelay + RemoveDelay

\* showCelebration: removes 'hide', adds 'show', starts the 3000 ms timer;
\* it does not touch the inline display and cancels no earlier timer
showCelebration(cm) ==
    [cm EXCEPT !.hide = FALSE, !.show = TRUE,
               !.fades = Append(@, FadeDelay),
               !.called = TRUE, !.since = 0]

\* the 3000 ms callback: adds 'hide' and starts the 500 ms timer
fadeOut(cm) ==
    [cm EXCEPT !.hide = TRUE, !.fades = Tail(@), !.removes = Append(@, RemoveDelay)]

\* the 500 ms callback: display = 'none'
removeDisplay(cm) == [cm EXCEPT !.display = "none", !.removes = Tail(@)]

Elapse(s) == [i \in DOMAIN s |-> s[i] - RemoveDelay]
NoneDue(s) == \A i \in DOMAIN s : s[i] > 0

InitCelebration ==
    /\ InitOn(WidgetPages)
    /\ log = << >>
    /\ OneTab
    /\ widgets = NewCompletionManager

ShowCelebration ==
    /\ Len(widgets.fades) < MaxShows
    /\ widgets' = showCelebration(widgets)
    /\ UNCHANGED Tracker

FadeTimer ==
    /\ widgets.fades # << >>
    /\ Head(widgets.fades) = 0
    /\ widgets' = fadeOut(widgets)
    /\ UNCHANGED Tracker

RemoveTimer ==
    /\ widgets.removes # << >>
    /\ Head(widgets.removes) = 0
    /\ widgets' = removeDisplay(widgets)
    /\ UNCHANGED Tracker

\* RemoveDelay ms pass with no timer due
Tick ==
    /\ NoneDue(widgets.fades) /\ NoneDue(widgets.removes)
    /\ widgets' = [widgets EXCEPT
                        !.fades = Elapse(@), !.removes = Elapse(@),
                        !.since = Lower(@ + RemoveDelay, FadeDelay + RemoveDelay)]
    /\ UNCHANGED Tracker

NextCelebration ==
    \/ ShowCelebration
    \/ FadeTimer
    \/ RemoveTimer
    \/ Tick

SpecCelebration == InitCelebration /\ [][NextCelebration]_vars

\* class 'show' set, class 'hide' absent, inline display not 'none'
Visible(cm) == cm.show /\ ~cm.hide /\ cm.display # "none"

\* C32: from every call of showCelebration and for the 3000 ms after it, the
\* overlay is visible, also when an earlier celebration has faded out or is
\* still running at the call
C32_VisibleFor3000 ==
    (widgets.called /\ widgets.since < FadeDelay) => Visible(widgets)


---------------------------------------------------------------------------
(* The celebration overlay of LessonManager v2.6 and of CompletionManager   *)
(* v1.0: created by the first showCelebration, shown for 3000 ms by each.   *)

CelebrationOwners == {"LessonManager v2.6", "CompletionManager v1.0"}

\* score arguments: Math.round of the share of correct answers, in percent
Scores == {0, 33, 50, 67, 100}

\* no #celebrationOverlay in the document yet
NewCelebration(owner) ==
    [present |-> TRUE, component |-> owner,
     overlay |-> << >>,     \* the score inside .celebration-score, once created
     show |-> FALSE,
     hides |-> 0,           \* pending 3000 ms timers
     lastScore |-> << >>]   \* argument of the most recent call

\* LessonManager.showCelebration (v2.6): builds the overlay, score included,
\* only when the document has none
showCelebration26(c, score) ==
    [c EXCEPT !.overlay = IF @ = << >> THEN <<score>> ELSE @,
              !.show = TRUE, !.hides = @ + 1, !.lastScore = <<score>>]

\* CompletionManager.showCelebration / createCelebrationOverlay (v1.0)
showCelebration10(c, score) ==
    [c EXCEPT !.overlay = IF @ = << >> THEN <<score>> ELSE @,
              !.show = TRUE, !.hides = @ + 1, !.lastScore = <<score>>]

\* the 3000 ms callback: removes class 'show'
hideCelebration(c) == [c EXCEPT !.show = FALSE, !.hides = @ - 1]

InitOverlay ==
    /\ InitOn(WidgetPages)
    /\ log = << >>
    /\ OneTab
    /\ \E owner \in CelebrationOwners : widgets = NewCelebration(owner)

CallShowCelebration(score) ==
    /\ widgets.hides < MaxShows
    /\ widgets' = IF widgets.component = "LessonManager v2.6"
                  THEN showCelebration26(widgets, score)
                  ELSE showCelebration10(widgets, score)
    /\ UNCHANGED Tracker

HideTimer ==
    /\ widgets.hides > 0
    /\ widgets' = hideCelebration(widgets)
    /\ UNCHANGED Tracker

NextOverlay ==
    \/ \E score \in Scores : CallShowCelebration(score)
    \/ HideTimer

SpecOverlay == InitOverlay /\ [][NextOverlay]_vars

\* C33: after any sequence of calls showCelebration(s1), ..., showCelebration(sn)
\* the overlay shows the score of the most recent call, sn
C33_ShowsLastScore ==
    widgets.lastScore # << >> => widgets.overlay = widgets.lastScore


---------------------------------------------------------------------------
(* LessonUI with its BottomBar, bound to a lesson manager (v2.4, one        *)
(* question): the status of the 'reading' and 'quiz' requirements and the   *)
(* requirementUpdated events of the last updateFromLessonManager.           *)

UIPages == {Page("v2.4", TRUE, 1, NoPassingOption, TRUE, FALSE, "quiz")}

\* LessonUI's default requirements carry no status until the first update
NewLessonUI ==
    [present |-> TRUE, component |-> "LessonUI",
     status |-> [reading |-> "none", quiz |-> "none"],
     events |-> << >>]

\* BottomBar.areAllRequirementsComplete
areAllRequirementsComplete(ui) ==
    ui.status.reading = "complete" /\ ui.status.quiz = "complete"

\* BottomBar.updateRequirement: sets the status, then dispatches
\* requirementUpdated with allComplete as it is at that moment
updateRequirement(ui, id, st) ==
    LET set == [ui EXCEPT !.status[id] = st]
    IN  [set EXCEPT !.events =
            Append(@, [id |-> id, status |-> st,
                       allComplete |-> areAllRequirementsComplete(set)])]

\* LessonUI.updateFromLessonManager with BottomBar.updateRequirements: the
\* 'reading' update first, then the 'quiz' update (none for a quizState the
\* switch does not list)
updateFromLessonManager(ui, l) ==
    LET start == [ui EXCEPT !.events = << >>]
        read == updateRequirement(start, "reading",
                    IF JsGe(l.requirements.contentProgress, Int2Num(90))
                    THEN "complete" ELSE "incomplete")
    IN  CASE l.quizState = "not-started" -> updateRequirement(read, "quiz", "incomplete")
          [] l.quizState = "in-progress" -> updateRequirement(read, "quiz", "in-progress")
          [] l.quizState = "failed" -> updateRequirement(read, "quiz", "failed")
          [] l.quizState = "passed" -> updateRequirement(read, "quiz", "complete")
          [] OTHER -> read

InitUI ==
    /\ InitOn(UIPages)
    /\ log = << >>
    /\ OneTab
    /\ widgets = NewLessonUI

\* the overridden updateProgressDisplay, or the initial update
UpdateFromLessonManager ==
    /\ widgets' = updateFromLessonManager(widgets, lm)
    /\ lastOp' = Op("update")
    /\ UNCHANGED <<cfg, win, media, lm, storage, timers, posted, log,
                   localStorage, otherTab>>

NextUI ==
    \/ (\E y \in {0, 15} : Scroll(y)) /\ Alone
    \/ AnimationFrame /\ Alone
    \/ InitTimer /\ Alone
    \/ (\E q \in Questions : \E a \in LetterSet : HandleAnswerClick(q, a)) /\ Alone
    \/ CheckAnswers /\ Alone
    \/ ResetQuiz /\ Alone
    \/ UpdateFromLessonManager

SpecUI == InitUI /\ [][NextUI]_vars

\* C34: every requirementUpdated event of an update carries allComplete
\* equal to (contentProgress >= 90 and quizState = 'passed') of the lesson
\* manager at the time of the update
C34_AllCompleteMatches ==
    lastOp.op = "update" =>
        \A i \in DOMAIN widgets.events :
            widgets.events[i].allComplete =
                (JsGe(lm.requirements.contentProgress, Int2Num(90))
                    /\ lm.quizState = "passed")


---------------------------------------------------------------------------
(* LessonAnalytics: window.gtag, the events handed to it, and the event     *)
(* list stored under analytics_<lessonId>.  An event is its name and its    *)
(* timestamp, here the ordinal of the trackEvent call.                      *)

\* storeEventLocally keeps the last KeepLast events
KeepLast == 100

\* trackEvent calls followed
MaxEvents == 102

\* a list that stops growing at 100 events (keeps the first ones)
storeEventLocally_keepFirst(a, e) ==
    LET events == Append(a.stored, e)
    IN  [a EXCEPT !.stored =
            IF Len(events) > KeepLast THEN SubSeq(events, 1, KeepLast) ELSE events]

\* storeEventLocally: push, then events.slice(-100) when longer than 100
storeEventLocally(a, e) ==
    LET events == Append(a.stored, e)
    IN  [a EXCEPT !.stored =
            IF Len(events) > KeepLast
            THEN SubSeq(events, Len(events) - KeepLast + 1, Len(events))
            ELSE events]

\* trackEvent: returns at once while window.gtag is missing; otherwise hands
\* the event to gtag and stores it (tracked: every call made, for reference)
trackEvent(a, name) ==
    LET e == [event |-> name, timestamp |-> Len(a.tracked) + 1]
        called == [a EXCEPT !.tracked = Append(@, e)]
    IN  IF ~a.gtag THEN called
        ELSE storeEventLocally([called EXCEPT !.passed = Append(@, e)], e)

\* initializeGA4: defines window.gtag, then trackPageView
initializeGA4(a) == trackEvent([a EXCEPT !.gtag = TRUE, !.loading = FALSE], "page_view")

\* constructor and init: loadGA4Script (initializeGA4 at once when the page
\* already has window.gtag, else the script is appended), then
\* trackLessonStart
NewLessonAnalytics(preloaded) ==
    LET blank == [present |-> TRUE, component |-> "LessonAnalytics",
                  gtag |-> FALSE, loading |-> TRUE,
                  tracked |-> << >>, passed |-> << >>, stored |-> << >>]
    IN  trackEvent(IF preloaded THEN initializeGA4(blank) ELSE blank, "lesson_start")

InitAnalytics ==
    /\ InitOn(WidgetPages)
    /\ log = << >>
    /\ OneTab
    /\ \E preloaded \in BOOLEAN : widgets = NewLessonAnalytics(preloaded)

\* a tracked interaction (scroll milestone, quiz answer, ...)
TrackEvent ==
    /\ Len(widgets.tracked) < MaxEvents
    /\ widgets' = trackEvent(widgets, "scroll_progress")
    /\ UNCHANGED Tracker

\* script.onload of gtag.js
ScriptLoaded ==
    /\ widgets.loading
    /\ widgets' = initializeGA4(widgets)
    /\ UNCHANGED Tracker

NextAnalytics ==
    \/ TrackEvent
    \/ ScriptLoaded

SpecAnalytics == InitAnalytics /\ [][NextAnalytics]_vars

EventsOf(s) == {s[i] : i \in DOMAIN s}

\* C35: an event tracked before gtag was ready is not lost: once gtag is
\* ready (the script has loaded and initializeGA4 has run) every event
\* tracked so far, lesson_start included, has been passed to gtag
C35_QueuedNotLost ==
    widgets.gtag => EventsOf(widgets.tracked) \subseteq EventsOf(widgets.passed)

\* C36: the stored list holds at most 100 events, and they are the most
\* recent min(n, 100) of the n events tracked while gtag was ready, in
\* their order
C36_LastHundred ==
    LET n == Len(widgets.passed)
        k == IF n < KeepLast THEN n ELSE KeepLast
    IN  /\ Len(widgets.stored) <= KeepLast
        /\ widgets.stored = SubSeq(widgets.passed, n - k + 1, n)

\* more than 100 events were tracked while gtag was ready: the oldest ones
\* are gone from the list, the newest is its last element
C36_Witness ==
    /\ Len(widgets.passed) > KeepLast
    /\ Len(widgets.stored) = KeepLast
    /\ widgets.stored[KeepLast] = widgets.passed[Len(widgets.passed)]
    /\ widgets.passed[1] \notin EventsOf(widgets.stored)


---------------------------------------------------------------------------
(* ThemeToggle v2.0 in full: the stored item 'theme', the system            *)
(* preference, the data-theme attribute, the checkbox and its listeners,    *)
(* and the pending 100 ms callbacks.                                        *)

Themes == {"light", "dark"}
Opposite(theme) == IF theme = "dark" THEN "light" ELSE "dark"

\* updateToggleState callbacks pending at a time
MaxUpdates == 2

\* applyTheme: sets data-theme
applyTheme(t, theme) == [t EXCEPT !.dataTheme = theme]

\* updateToggleState(theme), from the initial timer or not: sets the
\* checkbox, or schedules itself again while there is no checkbox
updateToggleState(t, theme, initial) ==
    IF t.checkbox
    THEN [t EXCEPT !.checked = (theme = "dark"),
                   !.initialDone = @ \/ initial]
    ELSE [t EXCEPT !.updates = Append(@, [theme |-> theme, initial |-> initial])]

\* setupCheckboxListener: binds 'change' and the toggle-slot click, or
\* schedules itself again while there is no checkbox
setupCheckboxListener(t) ==
    IF t.checkbox
    THEN [t EXCEPT !.bound = TRUE, !.setupPending = FALSE]
    ELSE [t EXCEPT !.setupPending = TRUE]

\* initTheme: the saved theme, else the system preference; the toggle state
\* is set 100 ms later, from the theme found now
initTheme(t) ==
    LET theme == IF t.stored # << >> THEN t.stored[1] ELSE t.system
    IN  [applyTheme(t, theme) EXCEPT
            !.updates = Append(@, [theme |-> theme, initial |-> TRUE])]

\* toggleTheme
toggleTheme(t) ==
    LET newTheme == Opposite(t.dataTheme)
    IN  [updateToggleState(applyTheme(t, newTheme), newTheme, FALSE) EXCEPT
            !.stored = <<newTheme>>]

\* a 'change' listener of prefers-color-scheme that applies every change
onSystemChange_always(t, theme) == applyTheme([t EXCEPT !.system = theme], theme)

\* the 'change' listener of prefers-color-scheme: applies the new preference
\* only while no theme is stored
onSystemChange(t, theme) ==
    IF t.stored = << >>
    THEN applyTheme([t EXCEPT !.system = theme], theme)
    ELSE [t EXCEPT !.system = theme]

\* 'change' on the checkbox (the browser has flipped it): heard only once
\* the listener is bound
onCheckboxChange(t) ==
    LET flipped == [t EXCEPT !.checked = ~@]
        newTheme == IF flipped.checked THEN "dark" ELSE "light"
    IN  IF t.bound
        THEN [applyTheme(flipped, newTheme) EXCEPT !.stored = <<newTheme>>]
        ELSE flipped

\* click on .toggle-slot outside the checkbox
onToggleSlotClick(t) ==
    LET flipped == [t EXCEPT !.checked = ~@]
        newTheme == IF flipped.checked THEN "dark" ELSE "light"
    IN  [applyTheme(flipped, newTheme) EXCEPT !.stored = <<newTheme>>]

\* new ThemeToggle() on a freshly loaded page: init = initTheme, then
\* setupEventListeners
NewThemeToggle(stored, system, checkbox) ==
    [setupCheckboxListener(initTheme(
        [present |-> TRUE, component |-> "ThemeToggle",
         stored |-> stored, system |-> system, dataTheme |-> "",
         checkbox |-> checkbox, checked |-> FALSE, bound |-> FALSE,
         setupPending |-> FALSE, updates |-> << >>, initialDone |-> FALSE,
         op |-> "init"]))
     EXCEPT !.op = "init"]

InitTheme ==
    /\ InitOn(WidgetPages)
    /\ log = << >>
    /\ OneTab
    /\ \E stored \in {<< >>} \cup {<<th>> : th \in Themes}, system \in Themes,
          checkbox \in BOOLEAN :
            widgets = NewThemeToggle(stored, system, checkbox)

\* the state an operation leaves, marked with the operation
Done(t, op) == [t EXCEPT !.op = op]

SystemPreferenceChange ==
    /\ widgets' = Done(onSystemChange(widgets, Opposite(widgets.system)), "system")
    /\ UNCHANGED Tracker

ChangeCheckbox ==
    /\ widgets.checkbox
    /\ widgets' = Done(onCheckboxChange(widgets), "change")
    /\ UNCHANGED Tracker

ClickToggleSlot ==
    /\ widgets.checkbox /\ widgets.bound
    /\ widgets' = Done(onToggleSlotClick(widgets), "click")
    /\ UNCHANGED Tracker

ToggleTheme ==
    /\ Len(widgets.updates) < MaxUpdates
    /\ widgets' = Done(toggleTheme(widgets), "toggle")
    /\ UNCHANGED Tracker

\* the page inserts the checkbox element, unchecked
ThemeCheckboxAppears ==
    /\ ~widgets.checkbox
    /\ widgets' = Done([widgets EXCEPT !.checkbox = TRUE], "appear")
    /\ UNCHANGED Tracker

\* a pending updateToggleState callback runs and finds the checkbox (while
\* there is none it only schedules itself again)
UpdateToggleTimer(i) ==
    /\ widgets.checkbox
    /\ i <= Len(widgets.updates)
    /\ LET u == widgets.updates[i]
           rest == [j \in 1..(Len(widgets.updates) - 1) |->
                        widgets.updates[IF j < i THEN j ELSE j + 1]]
       IN  widgets' = Done(updateToggleState([widgets EXCEPT !.updates = rest],
                                             u.theme, u.initial), "timer")
    /\ UNCHANGED Tracker

\* the pending setupCheckboxListener callback runs and finds the checkbox
SetupTimer ==
    /\ widgets.setupPending /\ widgets.checkbox
    /\ widgets' = Done(setupCheckboxListener(widgets), "timer")
    /\ UNCHANGED Tracker

\* the page is loaded again: a new document and a new ThemeToggle over the
\* same stored item and system preference
ReloadTheme ==
    /\ \E checkbox \in BOOLEAN :
            widgets' = NewThemeToggle(widgets.stored, widgets.system, checkbox)
    /\ UNCHANGED Tracker

NextTheme ==
    \/ SystemPreferenceChange
    \/ ChangeCheckbox
    \/ ClickToggleSlot
    \/ ToggleTheme
    \/ ThemeCheckboxAppears
    \/ \E i \in 1..MaxUpdates : UpdateToggleTimer(i)
    \/ SetupTimer
    \/ ReloadTheme

SpecTheme == InitTheme /\ [][NextTheme]_vars

\* C37: a saved theme wins over the system preference: right after init the
\* applied theme is the stored one if there is one, else the system
\* preference; and while a theme is stored, a change of the system
\* preference leaves the applied theme as it is
C37_SavedThemeWins ==
    /\ [](widgets.op = "init" =>
            widgets.dataTheme =
                (IF widgets.stored # << >> THEN widgets.stored[1] ELSE widgets.system))
    /\ [][(widgets.stored # << >> /\ widgets'.system # widgets.system) =>
            widgets'.dataTheme = widgets.dataTheme]_vars

\* the system preference has changed to the opposite of the stored theme,
\* which is still the one applied
C37_Witness ==
    /\ widgets.op = "system"
    /\ widgets.stored # << >>
    /\ widgets.dataTheme = widgets.stored[1]
    /\ widgets.system # widgets.dataTheme

\* C38: once the checkbox exists and the initial updateToggleState has run,
\* the checkbox is checked exactly when data-theme is 'dark', after every
\* operation
C38_CheckboxShowsTheme ==
    (widgets.checkbox /\ widgets.initialDone) =>
        (widgets.checked <=> widgets.dataTheme = "dark")

====
